---- MODULE Spec2Model ----
(***************************************************************************)
(* Model of the servo-instance runtime of ingenialink                      *)
(* (src/ingenialink/servo.c): the emergency queue and its monitor, the     *)
(* statusword synchronizer, the two subscriber registries and the servo    *)
(* lifecycle.  Each subsystem has a specification of its own                *)
(* (SpecEmcy, SpecSw, SpecSubs, SpecLife) over the shared variables.       *)
(***************************************************************************)
EXTENDS Integers, Sequences, FiniteSets, TLC

(***************************************************************************)
(* Bounds of the model.                                                    *)
(***************************************************************************)
\* emergency codes pushed in one behaviour
MaxPush == 5
\* statusword values range over 0..MaxSw
MaxSw == 1
\* timeouts passed to sw_wait_change range over -1..MaxTimeout (ms)
MaxTimeout == 1
\* the monotonic clock is followed for MaxTime ms from the start of a call
MaxTime == 1
\* slot arguments of unsubscribe range over -1..MaxSlotArg, and the bounds
MaxSlotArg == 4
\* the .sz field of a registry is followed up to MaxSz
MaxSz == 64

(***************************************************************************)
(* Program constants.                                                      *)
(***************************************************************************)
\* ring size of the emergency queue (head/tail are masked with SZ - 1)
EMCY_QUEUE_SZ == 4
\* initial number of slots of the emergency subscriber registry
EMCY_SUBS_SZ_DEF == 2
\* initial number of slots of the state subscriber registry
STATE_SUBS_SZ_DEF == 2
\* sizeof(*subs): a callback pointer and a context pointer (LP64)
SIZEOF_SUB == 16

NULL == "NULL"
\* an indeterminate, non-NULL pointer value (uninitialised memory)
JUNK == "junk"
Callbacks == {"cb1", "cb2"}
Contexts == {"ctx1", "ctx2"}
Regs == {"state", "emcy"}

\* osal_cond_wait results
OSAL_OK == "ok"
OSAL_ETIMEDOUT == "osal_etimedout"
OSAL_EFAIL == "osal_efail"

\* return values of the servo functions
IL_OK == "0"
IL_EFAIL == "IL_EFAIL"
IL_ETIMEDOUT == "IL_ETIMEDOUT"
IL_ENOMEM == "IL_ENOMEM"
IL_EINVAL == "IL_EINVAL"
IL_EACCESS == "IL_EACCESS"
IL_EALREADY == "IL_EALREADY"

\* threads calling sw_wait_change: the state monitor (the function's only
\* caller in servo.c) and a second caller, used to tell a broadcast from a
\* signal
Waiters == {"w1", "w2"}
SwVals == 0..MaxSw
Timeouts == (-1)..MaxTimeout
\* the timeouts each caller passes: the second caller waits indefinitely
TimeoutsOf(t) == IF t = "w1" THEN Timeouts ELSE {0}
\* the values each caller passes: the second caller passes the value that
\* il_servo_base__init stores
SwValsOf(t) == IF t = "w1" THEN SwVals ELSE {0}

VARIABLES
    \* ---- emergency queue (il_servo_emcy_t) and its monitor
    emcy,           \* [head, tail, queue, sz]
    emcy_lock,      \* owner of emcy->lock: "free" or "mon"
    em_pc,          \* position of emcy_subs_monitor
    em_r,           \* its local r (result of osal_cond_wait)
    em_code,        \* its local code
    em_i,           \* its local i
    em_stop,        \* emcy_subs.stop
    pushed,         \* history: codes passed to on_emcy, in order
    evicted,        \* history: codes dropped by on_emcy's overflow branch
    popped,         \* history: codes popped by the monitor, in order
    delivered,      \* history: <<slot, cb, ctx, code>> callback invocations
    first_pop_at,   \* history: Len(pushed) at the monitor's first pop (-1: none)
    \* ---- subscriber registries (state_subs, emcy_subs)
    subs,           \* [Regs -> Seq([cb, ctx])]: the allocated slots
    sz,             \* [Regs -> Nat]: the .sz field
    lock,           \* [Regs -> owner of .lock]
    \* ---- statusword synchronizer (servo->sw) and callers of sw_wait_change
    sw_value,       \* servo->sw.value
    w_pc,           \* [Waiters -> position in sw_wait_change]
    w_sw,           \* [Waiters -> *sw]
    w_to,           \* [Waiters -> *timeout]
    w_start,        \* [Waiters -> start (ms)]
    w_deadline,     \* [Waiters -> when the condition wait times out]
    w_r,            \* [Waiters -> result of osal_cond_wait]
    w_ret,          \* [Waiters -> value returned]
    w_in,           \* history: [Waiters -> the arguments as passed in]
    w_upd,          \* history: [Waiters -> sw_update was called during the call]
    w_blk,          \* history: [Waiters -> the call blocked on the condition]
    now,            \* the monotonic clock (ms since the oldest start in use)
    sw_ev,          \* history: the operation the last step performed
    \* ---- callers of subscribe / unsubscribe
    focus,          \* the registry the callers of this behaviour use
    call,           \* history: the subscribe / unsubscribe call of the last step
    \* ---- construction (il_servo_base__init) and the monitor tasks
    init_pc,        \* position of il_servo_base__init
    init_step,      \* index in InitOrder of the resource it acquires next
    init_dict,      \* its argument dict is not NULL
    init_r,         \* its local r
    servo_dict,     \* servo->dict is not NULL
    state_stop,     \* state_subs.stop
    task,           \* [Regs -> condition of the registry's monitor task]
    held,           \* the resources that exist
    acq_log,        \* history: the resources acquired, in order
    rel_log,        \* history: the resources released, in order
    init_failed,    \* history: the resource whose acquisition failed
    \* ---- destruction (il_servo_base__deinit)
    deinit_pc,      \* position of il_servo_base__deinit
    deinit_step,    \* index in DeinitOrder of what it tears down next
    \* ---- the state monitor (state_subs_monitor)
    sm_pc,          \* its position
    sm_sw,          \* its local sw
    sm_i,           \* its local i
    sm_ctx,         \* its local ctx
    sm_calls,       \* history: <<slot, cb, ctx, sw>> invocations of its
                    \* current fan-out
    \* ---- register access (raw_read, raw_write)
    io,             \* history: the last raw read or write and what it did
    acc,            \* history: the last register access, its arguments, what
                    \* it passed to the transport and what it gave the caller
    wire,           \* the loopback transport: the bytes last written
    \* ---- the dictionary file (parse_reg, il_dict_create)
    parsed,         \* history: the register node last parsed and its entry
    dc              \* il_dict_create: its position, its locals, the
                    \* resources that exist and the history of its releases

emcyVars == <<emcy, emcy_lock, em_pc, em_r, em_code, em_i, em_stop,
              pushed, evicted, popped, delivered, first_pop_at>>
regVars == <<subs, sz, lock>>
swVars == <<sw_value, w_pc, w_sw, w_to, w_start, w_deadline, w_r, w_ret,
            w_in, w_upd, w_blk, now, sw_ev>>
callVars == <<focus, call>>
deinitVars == <<deinit_pc, deinit_step>>
lifeVars == <<init_pc, init_step, init_dict, init_r, servo_dict, state_stop,
              task, held, acq_log, rel_log, init_failed, deinitVars>>
smVars == <<sm_pc, sm_sw, sm_i, sm_ctx, sm_calls>>
ioVars == <<io, acc, wire>>
dictVars == <<parsed, dc>>
vars == <<emcyVars, regVars, swVars, callVars, lifeVars, smVars, ioVars,
          dictVars>>
\* what the emergency queue and its monitor do not touch
outsideEmcy == <<swVars, callVars, lifeVars, smVars, ioVars, dictVars>>
\* what the statusword synchronizer does not touch
outsideSw == <<emcyVars, regVars, callVars, lifeVars, smVars, ioVars, dictVars>>
\* what subscribe and unsubscribe do not touch
outsideSubs == <<emcyVars, swVars, lifeVars, smVars, ioVars, dictVars>>

(***************************************************************************)
(* Helpers.                                                                *)
(***************************************************************************)
Range(s) == {s[i] : i \in 1..Len(s)}

Reverse(s) == [i \in 1..Len(s) |-> s[Len(s) + 1 - i]]
IsPrefix(s, t) == Len(s) <= Len(t) /\ \A i \in 1..Len(s) : s[i] = t[i]

EmptySlot == [cb |-> NULL, ctx |-> NULL]

\* a plausible slip: the index is advanced without the mask
Mask_NoWrap(x, size) == x

\* x & (size - 1) for a power-of-two size
Mask(x, size) == x % size

(***************************************************************************)
(* Circular buffer macros.                                                 *)
(***************************************************************************)
\* number of items in the buffer
CIRC_CNT(head, tail, size) == Mask(head - tail, size)

\* space left in the buffer (0 .. size - 1)
CIRC_SPACE(head, tail, size) == CIRC_CNT(tail, head + 1, size)

(***************************************************************************)
(* Emergency queue: producer.                                              *)
(***************************************************************************)
\* a plausible slip: the overflow branch forgets to advance tail
EmcyPush_NoEvict(e, code) ==
    [e EXCEPT !.queue[e.head] = code,
              !.head = Mask(e.head + 1, EMCY_QUEUE_SZ)]

\* on_emcy's update of the queue: drop the oldest if full, then push
EmcyPush(e, code) ==
    LET tail1 == IF CIRC_SPACE(e.head, e.tail, EMCY_QUEUE_SZ) = 0
                 THEN Mask(e.tail + 1, EMCY_QUEUE_SZ)
                 ELSE e.tail
    IN  [e EXCEPT !.tail = tail1,
                  !.queue[e.head] = code,
                  !.head = Mask(e.head + 1, EMCY_QUEUE_SZ)]

\* a plausible slip: the monitor reads the newest code instead of the oldest
EmcyFront_Newest(e) == e.queue[Mask(e.head - 1, e.sz)]

\* the code the monitor pops: the one at tail
EmcyFront(e) == e.queue[e.tail]

\* a plausible slip: the monitor reads the code and leaves tail where it is
EmcyAdvance_Stay(e) == e

\* the monitor's advance of tail after reading the code
EmcyAdvance(e) == [e EXCEPT !.tail = Mask(e.tail + 1, e.sz)]

\* the unread codes, oldest first
EmcyContents(e) ==
    [k \in 1..CIRC_CNT(e.head, e.tail, e.sz) |-> e.queue[Mask(e.tail + k - 1, e.sz)]]

\* on_emcy(ctx, code): the transport's inbound emergency callback.  The whole
\* function runs under emcy->lock; osal_cond_signal wakes the monitor only if
\* it is blocked in osal_cond_wait.
on_emcy(code) ==
    /\ emcy_lock = "free"
    /\ emcy' = EmcyPush(emcy, code)
    /\ pushed' = Append(pushed, code)
    /\ evicted' = IF CIRC_SPACE(emcy.head, emcy.tail, EMCY_QUEUE_SZ) = 0
                  THEN Append(evicted, emcy.queue[emcy.tail])
                  ELSE evicted
    /\ IF em_pc = "blocked"
       THEN em_pc' = "woken" /\ em_r' = OSAL_OK
       ELSE UNCHANGED <<em_pc, em_r>>
    /\ UNCHANGED <<emcy_lock, em_code, em_i, em_stop, popped, delivered,
                   first_pop_at>>

\* the transport delivers the next emergency; codes are numbered so that
\* each pushed code can be told apart
EmcyArrives ==
    /\ Len(pushed) < MaxPush
    /\ on_emcy(Len(pushed) + 1)
    /\ UNCHANGED <<regVars, outsideEmcy>>

(***************************************************************************)
(* Emergency monitor (emcy_subs_monitor), one action per step.             *)
(***************************************************************************)
\* while (!emcy_subs->stop)
EmMonLoop ==
    /\ em_pc = "loop"
    /\ em_pc' = IF em_stop THEN "done" ELSE "lock"
    /\ UNCHANGED <<emcy, emcy_lock, em_r, em_code, em_i, em_stop, pushed,
                   evicted, popped, delivered, first_pop_at, regVars, outsideEmcy>>

\* osal_mutex_lock(emcy->lock); osal_cond_wait(...) releases the lock and blocks
EmMonWait ==
    /\ em_pc = "lock"
    /\ emcy_lock = "free"
    /\ em_pc' = "blocked"
    /\ UNCHANGED <<emcy, emcy_lock, em_r, em_code, em_i, em_stop, pushed,
                   evicted, popped, delivered, first_pop_at, regVars, outsideEmcy>>

\* the wait ends without a signal: EMCY_SUBS_TIMEOUT elapsed, or the wait failed
EmMonWaitEnds ==
    /\ em_pc = "blocked"
    /\ \E r \in {OSAL_ETIMEDOUT, OSAL_EFAIL} : em_r' = r
    /\ em_pc' = "woken"
    /\ UNCHANGED <<emcy, emcy_lock, em_code, em_i, em_stop, pushed,
                   evicted, popped, delivered, first_pop_at, regVars, outsideEmcy>>

\* osal_cond_wait re-acquires the lock and returns r; if (r == 0) drain
EmMonWoken ==
    /\ em_pc = "woken"
    /\ emcy_lock = "free"
    /\ emcy_lock' = "mon"
    /\ em_pc' = IF em_r = OSAL_OK THEN "check" ELSE "unlock"
    /\ UNCHANGED <<emcy, em_r, em_code, em_i, em_stop, pushed,
                   evicted, popped, delivered, first_pop_at, regVars, outsideEmcy>>

\* a plausible slip: the queue lock is kept across the fan-out
QueueLockAfterPop_Held == "mon"

\* osal_mutex_unlock(emcy->lock) before the subscribers are notified
QueueLockAfterPop == "free"

\* while (CIRC_CNT(head, tail, sz)) { code = queue[tail]; tail = ...; unlock
EmMonPop ==
    /\ em_pc = "check"
    /\ IF CIRC_CNT(emcy.head, emcy.tail, emcy.sz) # 0
       THEN /\ em_code' = EmcyFront(emcy)
            /\ emcy' = EmcyAdvance(emcy)
            /\ popped' = Append(popped, EmcyFront(emcy))
            /\ first_pop_at' = IF first_pop_at < 0 THEN Len(pushed)
                               ELSE first_pop_at
            /\ emcy_lock' = QueueLockAfterPop
            /\ em_pc' = "fanlock"
       ELSE /\ em_pc' = "unlock"
            /\ UNCHANGED <<em_code, emcy, popped, first_pop_at, emcy_lock>>
    /\ UNCHANGED <<em_r, em_i, em_stop, pushed, evicted, delivered, regVars, outsideEmcy>>

\* osal_mutex_lock(emcy_subs->lock); i = 0
EmMonFanLock ==
    /\ em_pc = "fanlock"
    /\ lock["emcy"] = "free"
    /\ lock' = [lock EXCEPT !["emcy"] = "mon"]
    /\ em_i' = 0
    /\ em_pc' = "fan"
    /\ UNCHANGED <<emcy, emcy_lock, em_r, em_code, em_stop, pushed,
                   evicted, popped, delivered, first_pop_at, subs, sz, outsideEmcy>>

\* one iteration of for (i = 0; i < emcy_subs->sz; i++); after the last one
\* osal_mutex_unlock(emcy_subs->lock)
EmMonFan ==
    /\ em_pc = "fan"
    /\ IF em_i < sz["emcy"]
       THEN /\ delivered' =
                 IF subs["emcy"][em_i + 1].cb # NULL
                 THEN Append(delivered, <<em_i, subs["emcy"][em_i + 1].cb,
                                          subs["emcy"][em_i + 1].ctx, em_code>>)
                 ELSE delivered
            /\ em_i' = em_i + 1
            /\ UNCHANGED <<em_pc, lock>>
       ELSE /\ lock' = [lock EXCEPT !["emcy"] = "free"]
            /\ em_pc' = "relock"
            /\ UNCHANGED <<em_i, delivered>>
    /\ UNCHANGED <<emcy, emcy_lock, em_r, em_code, em_stop, pushed,
                   evicted, popped, first_pop_at, subs, sz, outsideEmcy>>

\* osal_mutex_lock(emcy->lock) at the end of the drain loop's body
EmMonRelock ==
    /\ em_pc = "relock"
    /\ emcy_lock = "free"
    /\ emcy_lock' = "mon"
    /\ em_pc' = "check"
    /\ UNCHANGED <<emcy, em_r, em_code, em_i, em_stop, pushed,
                   evicted, popped, delivered, first_pop_at, regVars, outsideEmcy>>

\* osal_mutex_unlock(emcy->lock) at the end of the outer loop's body
EmMonUnlock ==
    /\ em_pc = "unlock"
    /\ emcy_lock' = "free"
    /\ em_pc' = "loop"
    /\ UNCHANGED <<emcy, em_r, em_code, em_i, em_stop, pushed,
                   evicted, popped, delivered, first_pop_at, regVars, outsideEmcy>>

\* il_servo_base__deinit sets emcy_subs.stop = 1
EmcyStop ==
    /\ ~em_stop
    /\ em_stop' = TRUE
    /\ UNCHANGED <<emcy, emcy_lock, em_pc, em_r, em_code, em_i, pushed,
                   evicted, popped, delivered, first_pop_at, regVars, outsideEmcy>>

emcy_subs_monitor ==
    \/ EmMonLoop
    \/ EmMonWait
    \/ EmMonWaitEnds
    \/ EmMonWoken
    \/ EmMonPop
    \/ EmMonFanLock
    \/ EmMonFan
    \/ EmMonRelock
    \/ EmMonUnlock

(***************************************************************************)
(* Initial states.                                                         *)
(***************************************************************************)
\* il_servo_base__init: head = tail = 0, sz = EMCY_QUEUE_SZ, stop = 0
InitEmcyVars ==
    /\ emcy = [head |-> 0, tail |-> 0, sz |-> EMCY_QUEUE_SZ,
               queue |-> [k \in 0..(EMCY_QUEUE_SZ - 1) |-> 0]]
    /\ emcy_lock = "free"
    /\ em_pc = "loop"
    /\ em_r = OSAL_OK
    /\ em_code = 0
    /\ em_i = 0
    /\ em_stop = FALSE
    /\ pushed = <<>>
    /\ evicted = <<>>
    /\ popped = <<>>
    /\ delivered = <<>>
    /\ first_pop_at = -1

\* il_servo_base__init: sw.value = 0; no call of sw_wait_change in progress
InitSwVars ==
    /\ sw_value = 0
    /\ w_pc = [t \in Waiters |-> "idle"]
    /\ w_sw = [t \in Waiters |-> 0]
    /\ w_to = [t \in Waiters |-> 0]
    /\ w_start = [t \in Waiters |-> 0]
    /\ w_deadline = [t \in Waiters |-> 0]
    /\ w_r = [t \in Waiters |-> OSAL_OK]
    /\ w_ret = [t \in Waiters |-> IL_OK]
    /\ w_in = [t \in Waiters |-> [sw |-> 0, to |-> 0]]
    /\ w_upd = [t \in Waiters |-> FALSE]
    /\ w_blk = [t \in Waiters |-> FALSE]
    /\ now = 0
    /\ sw_ev = [op |-> "other"]

(***************************************************************************)
(* Construction: the resources il_servo_base__init acquires and the labels *)
(* of its cleanup chain.                                                   *)
(***************************************************************************)
\* the resources in the order il_servo_base__init acquires them
InitOrder ==
    << "net", "dict", "units.lock", "sw.lock", "sw.changed", "sw.slot",
       "state_subs.subs", "state_subs.lock", "state_subs.monitor",
       "emcy.lock", "emcy.not_empty", "emcy.slot",
       "emcy_subs.subs", "emcy_subs.lock", "emcy_subs.monitor" >>

Resources == Range(InitOrder)

\* the labels of the cleanup chain, in the order control falls through them
CleanupChain ==
    << "cleanup_emcy_subs_lock", "cleanup_emcy_subs_subs",
       "cleanup_emcy_subscribe", "cleanup_emcy_not_empty",
       "cleanup_emcy_lock", "cleanup_state_subs_monitor",
       "cleanup_state_subs_lock", "cleanup_state_subs_subs",
       "cleanup_sw_subscribe", "cleanup_sw_changed", "cleanup_sw_lock",
       "cleanup_units_lock", "cleanup_dict", "cleanup_net" >>

\* the resource the code under a label releases
CleanupOf(label) ==
    CASE label = "cleanup_emcy_subs_lock" -> "emcy_subs.lock"
      [] label = "cleanup_emcy_subs_subs" -> "emcy_subs.subs"
      [] label = "cleanup_emcy_subscribe" -> "emcy.slot"
      [] label = "cleanup_emcy_not_empty" -> "emcy.not_empty"
      [] label = "cleanup_emcy_lock" -> "emcy.lock"
      [] label = "cleanup_state_subs_monitor" -> "state_subs.monitor"
      [] label = "cleanup_state_subs_lock" -> "state_subs.lock"
      [] label = "cleanup_state_subs_subs" -> "state_subs.subs"
      [] label = "cleanup_sw_subscribe" -> "sw.slot"
      [] label = "cleanup_sw_changed" -> "sw.changed"
      [] label = "cleanup_sw_lock" -> "sw.lock"
      [] label = "cleanup_units_lock" -> "units.lock"
      [] label = "cleanup_dict" -> "dict"
      [] label = "cleanup_net" -> "net"

\* a plausible slip: a failure to create emcy.lock jumps past the stop and
\* join of the state monitor
OnFail_SkipJoin(res) ==
    CASE res = "dict" -> "cleanup_net"
      [] res = "units.lock" -> "cleanup_dict"
      [] res = "sw.lock" -> "cleanup_units_lock"
      [] res = "sw.changed" -> "cleanup_sw_lock"
      [] res = "sw.slot" -> "cleanup_sw_changed"
      [] res = "state_subs.subs" -> "cleanup_sw_subscribe"
      [] res = "state_subs.lock" -> "cleanup_state_subs_subs"
      [] res = "state_subs.monitor" -> "cleanup_state_subs_lock"
      [] res = "emcy.lock" -> "cleanup_state_subs_lock"
      [] res = "emcy.not_empty" -> "cleanup_emcy_lock"
      [] res = "emcy.slot" -> "cleanup_emcy_not_empty"
      [] res = "emcy_subs.subs" -> "cleanup_emcy_subscribe"
      [] res = "emcy_subs.lock" -> "cleanup_emcy_subs_subs"
      [] res = "emcy_subs.monitor" -> "cleanup_emcy_subs_lock"

\* the label il_servo_base__init jumps to when acquiring res fails
OnFail(res) ==
    CASE res = "dict" -> "cleanup_net"
      [] res = "units.lock" -> "cleanup_dict"
      [] res = "sw.lock" -> "cleanup_units_lock"
      [] res = "sw.changed" -> "cleanup_sw_lock"
      [] res = "sw.slot" -> "cleanup_sw_changed"
      [] res = "state_subs.subs" -> "cleanup_sw_subscribe"
      [] res = "state_subs.lock" -> "cleanup_state_subs_subs"
      [] res = "state_subs.monitor" -> "cleanup_state_subs_lock"
      [] res = "emcy.lock" -> "cleanup_state_subs_monitor"
      [] res = "emcy.not_empty" -> "cleanup_emcy_lock"
      [] res = "emcy.slot" -> "cleanup_emcy_not_empty"
      [] res = "emcy_subs.subs" -> "cleanup_emcy_subscribe"
      [] res = "emcy_subs.lock" -> "cleanup_emcy_subs_subs"
      [] res = "emcy_subs.monitor" -> "cleanup_emcy_subs_lock"

\* a plausible slip: the emergency registry lock is destroyed before the
\* emergency monitor is stopped and joined
DeinitOrder_LockFirst ==
    << "emcy_subs.lock", "emcy_subs.monitor", "emcy_subs.subs", "emcy.slot",
       "emcy.not_empty", "emcy.lock", "state_subs.monitor", "state_subs.lock",
       "state_subs.subs", "sw.slot", "sw.changed", "sw.lock", "units.lock",
       "dict" >>

\* a plausible slip: the dictionary is destroyed before the units lock
DeinitOrder_DictFirst ==
    << "emcy_subs.monitor", "emcy_subs.lock", "emcy_subs.subs", "emcy.slot",
       "emcy.not_empty", "emcy.lock", "state_subs.monitor", "state_subs.lock",
       "state_subs.subs", "sw.slot", "sw.changed", "sw.lock", "dict",
       "units.lock" >>

\* what il_servo_base__deinit tears down, in the order of its statements
DeinitOrder ==
    << "emcy_subs.monitor", "emcy_subs.lock", "emcy_subs.subs", "emcy.slot",
       "emcy.not_empty", "emcy.lock", "state_subs.monitor", "state_subs.lock",
       "state_subs.subs", "sw.slot", "sw.changed", "sw.lock", "units.lock",
       "dict" >>

\* the registry whose monitor task a monitor resource is
MonitorReg(res) == IF res = "state_subs.monitor" THEN "state" ELSE "emcy"

\* the error of the transport's subscribe functions, passed through
IL_ENET == "net error"

\* the value r holds when acquiring res has failed
ErrOf(res) == IF res \in {"sw.slot", "emcy.slot"} THEN IL_ENET ELSE IL_EFAIL

\* the locks and conditions the monitor task of registry r works with
TaskUses(r) ==
    IF r = "state" THEN {"state_subs.lock", "sw.lock", "sw.changed"}
    ELSE {"emcy_subs.lock", "emcy.lock", "emcy.not_empty"}

\* the state il_servo_base__init leaves behind when it returns 0
InitLifeVars ==
    /\ init_pc = "returned"
    /\ init_step = 0
    /\ init_dict = TRUE
    /\ init_r = IL_OK
    /\ servo_dict = TRUE
    /\ state_stop = FALSE
    /\ task = [r \in Regs |-> "running"]
    /\ held = Resources
    /\ acq_log = InitOrder
    /\ rel_log = <<>>
    /\ init_failed = "none"
    /\ deinit_pc = "idle"
    /\ deinit_step = 0

\* no subscribe or unsubscribe call has been made
NoCall == [op |-> "none", reg |-> "state", slot |-> 0, cb |-> NULL,
           ctx |-> NULL, err |-> IL_OK, oob |-> FALSE]

InitCallVars ==
    /\ focus = "state"
    /\ call = NoCall

\* no transport call
NoNet == [fn |-> "none", address |-> 0, confirmed |-> 0]

\* no register has been read or written
InitIoVars ==
    /\ io = [op |-> "none", ret |-> IL_OK, net |-> NoNet, held |-> {}]
    /\ acc = [op |-> "none"]
    /\ wire = <<>>

\* the state monitor has just been created
\* no dictionary file has been read
InitDictVars ==
    /\ parsed = [op |-> "none"]
    /\ dc = [pc |-> "idle", r |-> IL_OK, held |-> {}, bad |-> {},
             cats |-> <<>>, regs |-> <<>>, n |-> 0, failed |-> FALSE,
             ret |-> "none"]

InitSmVars ==
    /\ sm_pc = "start"
    /\ sm_sw = 0
    /\ sm_i = 0
    /\ sm_ctx = NULL
    /\ sm_calls = <<>>

\* il_servo_base__init: calloc'ed (all-empty) registries of the default size
InitRegVars ==
    /\ subs = [r \in Regs |->
                 [k \in 1..(IF r = "state" THEN STATE_SUBS_SZ_DEF
                            ELSE EMCY_SUBS_SZ_DEF) |-> EmptySlot]]
    /\ sz = [r \in Regs |-> IF r = "state" THEN STATE_SUBS_SZ_DEF
                            ELSE EMCY_SUBS_SZ_DEF]
    /\ lock = [r \in Regs |-> "free"]

(***************************************************************************)
(* SpecEmcy: the emergency queue, its producer and its monitor, with the   *)
(* emergency registry holding some subscribers.                            *)
(***************************************************************************)
\* the registries a few subscribe calls leave behind, without growth
EmcyRegistries ==
    { <<[cb |-> "cb1", ctx |-> "ctx1"], EmptySlot>>,
      <<EmptySlot, [cb |-> "cb2", ctx |-> "ctx2"]>>,
      <<[cb |-> "cb1", ctx |-> "ctx1"], [cb |-> "cb2", ctx |-> "ctx2"]>> }

InitEmcy ==
    /\ InitEmcyVars
    /\ \E reg \in EmcyRegistries :
          subs = [r \in Regs |-> IF r = "emcy" THEN reg
                                 ELSE [k \in 1..STATE_SUBS_SZ_DEF |-> EmptySlot]]
    /\ sz = [r \in Regs |-> IF r = "state" THEN STATE_SUBS_SZ_DEF
                            ELSE EMCY_SUBS_SZ_DEF]
    /\ lock = [r \in Regs |-> "free"]
    /\ InitSwVars
    /\ InitCallVars
    /\ InitSmVars
    /\ InitIoVars
    /\ InitDictVars
    /\ InitLifeVars

NextEmcy ==
    \/ EmcyArrives
    \/ emcy_subs_monitor
    \/ EmcyStop

SpecEmcy == InitEmcy /\ [][NextEmcy]_vars

(***************************************************************************)
(* C1, C2: delivery order and overflow of the emergency queue.             *)
(***************************************************************************)
\* the pushed codes that on_emcy's overflow branch did not evict, in order
NonEvicted == SelectSeq(pushed, LAMBDA c : c \notin Range(evicted))

\* the codes passed to the callback of slot s, in order of invocation
DeliveredTo(s) ==
    LET mine == SelectSeq(delivered, LAMBDA d : d[1] = s)
    IN  [k \in 1..Len(mine) |-> mine[k][4]]

OccupiedSlots(r) == {s \in 0..(Len(subs[r]) - 1) : subs[r][s + 1].cb # NULL}

\* C1: emergency codes reach every subscriber in strict FIFO order: the codes
\* passed to a subscriber's callback are, in order, the pushed codes without
\* the ones evicted by drop-oldest; every code pushed so far is evicted,
\* popped or still queued, in insertion order.
C1_FifoDelivery ==
    /\ popped \o EmcyContents(emcy) = NonEvicted
    /\ \A s \in OccupiedSlots("emcy") :
          /\ IsPrefix(DeliveredTo(s), popped)
          /\ Len(DeliveredTo(s)) >= Len(popped) - 1

\* C1 witness: an eviction has happened and later codes were delivered to a
\* subscriber after the gap
C1_Witness ==
    /\ Len(evicted) >= 1
    /\ \E s \in OccupiedSlots("emcy") :
          /\ Len(DeliveredTo(s)) >= 2
          /\ \E k \in 1..(Len(DeliveredTo(s)) - 1) :
                DeliveredTo(s)[k + 1] > DeliveredTo(s)[k] + 1

\* the last n elements of s
LastN(s, n) == SubSeq(s, Len(s) - n + 1, Len(s))

\* EMCY_QUEUE_SZ + 1 codes were pushed before the first pop, and the queue
\* has been drained since
PushedThenDrained ==
    /\ Len(pushed) = EMCY_QUEUE_SZ + 1
    /\ first_pop_at = EMCY_QUEUE_SZ + 1
    /\ CIRC_CNT(emcy.head, emcy.tail, emcy.sz) = 0

\* C2 (as stated): pushing N + 1 codes into a queue of capacity N with no
\* drain in between and then draining yields exactly the last N codes.
C2_OverflowKeepsN ==
    PushedThenDrained => popped = LastN(pushed, EMCY_QUEUE_SZ)

\* C2 (amended): a queue of ring size N holds at most N - 1 unread codes;
\* pushing N + 1 codes with no drain in between and then draining yields
\* exactly the last N - 1 codes in insertion order.
C2_OverflowKeepsNMinus1 ==
    /\ CIRC_CNT(emcy.head, emcy.tail, emcy.sz) <= EMCY_QUEUE_SZ - 1
    /\ PushedThenDrained => popped = LastN(pushed, EMCY_QUEUE_SZ - 1)

\* C2 witness: five codes pushed into the size-4 queue, then drained
C2_Witness ==
    /\ PushedThenDrained
    /\ Len(popped) = EMCY_QUEUE_SZ - 1

(***************************************************************************)
(* Statusword synchronizer: sw_update and sw_wait_change.                  *)
(* servo->sw.lock is taken and released inside one step everywhere (the    *)
(* condition wait releases it while blocked), so it is free between steps. *)
(***************************************************************************)
\* a plausible slip: store and broadcast whatever the new value is
SwDiffers_Always(stored, v) == TRUE

\* sw_update's test: if (servo->sw.value != sw)
SwDiffers(stored, v) == stored # v

\* a plausible slip: the broadcast wakes a single waiter (a signal)
SwWakeSet_One(blocked) ==
    IF blocked = {} THEN {} ELSE {CHOOSE t \in blocked : TRUE}

\* osal_cond_broadcast wakes every thread blocked on sw.changed
SwWakeSet(blocked) == blocked

\* a plausible slip: the woken caller returns without re-reading the value
SwFinish_NoReread(stored, sw, to, start, end, r_wait, clock_ok) ==
    [sw |-> sw, to |-> to, ret |-> IL_OK]

\* a plausible slip: the timeout is updated whatever its sign
SwFinish_AlwaysAccount(stored, sw, to, start, end, r_wait, clock_ok) ==
    LET to1 == to - (end - start)
    IN  IF r_wait = OSAL_OK
        THEN [sw |-> stored, to |-> to1,
              ret |-> IF to1 <= 0 THEN IL_ETIMEDOUT ELSE IL_OK]
        ELSE [sw |-> sw, to |-> to,
              ret |-> IF r_wait = OSAL_ETIMEDOUT THEN IL_ETIMEDOUT ELSE IL_EFAIL]

\* sw_wait_change from the return of the wait (or from the skipped wait) to
\* its return: the result of the wait, *sw = servo->sw.value, and the
\* timeout update under "out:"
SwFinish(stored, sw, to, start, end, r_wait, clock_ok) ==
    LET r1 == IF r_wait = OSAL_ETIMEDOUT THEN IL_ETIMEDOUT
              ELSE IF r_wait = OSAL_EFAIL THEN IL_EFAIL
              ELSE IL_OK
        sw1 == IF r1 = IL_OK THEN stored ELSE sw
        to1 == to - (end - start)
    IN  IF to > 0 /\ r1 = IL_OK
        THEN IF ~clock_ok
             THEN [sw |-> sw1, to |-> to, ret |-> IL_EFAIL]
             ELSE [sw |-> sw1, to |-> to1,
                   ret |-> IF to1 <= 0 THEN IL_ETIMEDOUT ELSE IL_OK]
        ELSE [sw |-> sw1, to |-> to, ret |-> r1]

\* the threads inside sw_wait_change
InCall == {t \in Waiters : w_pc[t] \in {"started", "blocked", "woken"}}

\* sw_update(ctx, sw): the transport's inbound statusword callback
sw_update(v) ==
    LET woken == IF SwDiffers(sw_value, v)
                 THEN SwWakeSet({t \in Waiters : w_pc[t] = "blocked"})
                 ELSE {}
    IN  /\ sw_value' = IF SwDiffers(sw_value, v) THEN v ELSE sw_value
        /\ w_pc' = [t \in Waiters |-> IF t \in woken THEN "woken" ELSE w_pc[t]]
        /\ w_r' = [t \in Waiters |-> IF t \in woken THEN OSAL_OK ELSE w_r[t]]
        /\ w_upd' = [t \in Waiters |-> w_upd[t] \/ t \in InCall]
        /\ sw_ev' = [op |-> "sw_update", v |-> v,
                     bcast |-> SwDiffers(sw_value, v)]
        /\ UNCHANGED <<w_sw, w_to, w_start, w_deadline, w_ret, w_in, w_blk,
                       now>>

\* the transport reports a statusword
SwArrives ==
    /\ \E v \in SwVals : sw_update(v)
    /\ UNCHANGED outsideSw

\* the callers that hold a time stamp of the clock
Timed == {t \in Waiters : w_pc[t] \in {"started", "blocked", "woken"} /\ w_to[t] > 0}

\* a return of sw_wait_change with the given results; the clock's epoch is
\* moved up to the present once no caller holds a time stamp
SwReturn(t, res) ==
    /\ now' = IF Timed \ {t} = {} THEN 0 ELSE now
    /\ w_pc' = [w_pc EXCEPT ![t] = "returned"]
    /\ w_sw' = [w_sw EXCEPT ![t] = res.sw]
    /\ w_to' = [w_to EXCEPT ![t] = res.to]
    /\ w_ret' = [w_ret EXCEPT ![t] = res.ret]
    /\ w_start' = [w_start EXCEPT ![t] = 0]
    /\ w_deadline' = [w_deadline EXCEPT ![t] = 0]
    /\ w_r' = [w_r EXCEPT ![t] = OSAL_OK]

\* sw_wait_change(servo, &sw, &timeout) is entered: the start time is taken
\* if the timeout is positive, and osal_clock_gettime may fail
SwCall(t) ==
    /\ w_pc[t] \in {"idle", "returned"}
    /\ \E v \in SwValsOf(t), T \in TimeoutsOf(t), clock_ok \in BOOLEAN :
          /\ w_in' = [w_in EXCEPT ![t] = [sw |-> v, to |-> T]]
          /\ w_upd' = [w_upd EXCEPT ![t] = FALSE]
          /\ w_blk' = [w_blk EXCEPT ![t] = FALSE]
          /\ sw_ev' = [op |-> "other"]
          /\ IF T > 0 /\ ~clock_ok
             THEN SwReturn(t, [sw |-> v, to |-> T, ret |-> IL_EFAIL])
             ELSE /\ w_pc' = [w_pc EXCEPT ![t] = "started"]
                  /\ w_sw' = [w_sw EXCEPT ![t] = v]
                  /\ w_to' = [w_to EXCEPT ![t] = T]
                  /\ w_start' = [w_start EXCEPT ![t] = IF T > 0 THEN now ELSE 0]
                  /\ UNCHANGED <<w_deadline, w_r, w_ret, now>>
    /\ UNCHANGED <<sw_value, outsideSw>>

\* the lock is taken; if the stored value equals *sw the caller blocks in
\* osal_cond_wait(changed, lock, *timeout), otherwise it proceeds to return
SwEnter(t) ==
    /\ w_pc[t] = "started"
    /\ sw_ev' = [op |-> "other"]
    /\ IF sw_value = w_sw[t]
       THEN /\ w_pc' = [w_pc EXCEPT ![t] = "blocked"]
            /\ w_blk' = [w_blk EXCEPT ![t] = TRUE]
            /\ w_deadline' = [w_deadline EXCEPT ![t] = now + w_to[t]]
            /\ UNCHANGED <<w_sw, w_to, w_start, w_r, w_ret, now>>
       ELSE /\ \E clock_ok \in BOOLEAN :
                  SwReturn(t, SwFinish(sw_value, w_sw[t], w_to[t], w_start[t],
                                       now, OSAL_OK, clock_ok))
            /\ UNCHANGED w_blk
    /\ UNCHANGED <<sw_value, w_in, w_upd, outsideSw>>

\* the condition wait ends without a broadcast: a positive timeout has
\* elapsed (a non-positive one waits indefinitely), or the wait failed
SwWaitEnds(t) ==
    /\ w_pc[t] = "blocked"
    /\ \/ /\ w_to[t] > 0
          /\ now >= w_deadline[t]
          /\ w_r' = [w_r EXCEPT ![t] = OSAL_ETIMEDOUT]
       \/ w_r' = [w_r EXCEPT ![t] = OSAL_EFAIL]
    /\ w_pc' = [w_pc EXCEPT ![t] = "woken"]
    /\ sw_ev' = [op |-> "other"]
    /\ UNCHANGED <<sw_value, w_sw, w_to, w_start, w_deadline, w_ret, w_in,
                   w_upd, w_blk, now, outsideSw>>

\* osal_cond_wait re-acquires the lock and returns; the caller runs to its
\* return
SwWake(t) ==
    /\ w_pc[t] = "woken"
    /\ sw_ev' = [op |-> "other"]
    /\ \E clock_ok \in BOOLEAN :
          SwReturn(t, SwFinish(sw_value, w_sw[t], w_to[t], w_start[t],
                               now, w_r[t], clock_ok))
    /\ UNCHANGED <<sw_value, w_in, w_upd, w_blk, outsideSw>>

\* a millisecond passes while some caller measures time
Tick ==
    /\ Timed # {}
    /\ now < MaxTime
    /\ now' = now + 1
    /\ sw_ev' = [op |-> "other"]
    /\ UNCHANGED <<sw_value, w_pc, w_sw, w_to, w_start, w_deadline, w_r,
                   w_ret, w_in, w_upd, w_blk, outsideSw>>

sw_wait_change(t) ==
    \/ SwCall(t)
    \/ SwEnter(t)
    \/ SwWaitEnds(t)
    \/ SwWake(t)

InitSw ==
    /\ InitEmcyVars
    /\ InitRegVars
    /\ InitSwVars
    /\ InitCallVars
    /\ InitSmVars
    /\ InitIoVars
    /\ InitDictVars
    /\ InitLifeVars

\* one thread calls sw_wait_change, as in servo.c
NextSw ==
    \/ SwArrives
    \/ sw_wait_change("w1")
    \/ Tick

SpecSw == InitSw /\ [][NextSw]_vars

\* several threads call sw_wait_change
NextSwAll ==
    \/ SwArrives
    \/ \E t \in Waiters : sw_wait_change(t)
    \/ Tick

\* a woken caller gets the lock back and runs on (the lock is only ever held
\* for the length of one step)
SpecSwAll ==
    InitSw /\ [][NextSwAll]_vars /\ \A t \in Waiters : WF_vars(SwWake(t))

(***************************************************************************)
(* C3, C4, C5: change detection and timeout reporting.                     *)
(***************************************************************************)
\* C3: sw_update with the stored value is a no-op: the stored value stays,
\* nothing is broadcast and no caller blocked in sw_wait_change is woken.
C3_SameValueNoOp ==
    [][(sw_ev'.op = "sw_update" /\ sw_ev'.v = sw_value)
         => /\ sw_value' = sw_value
            /\ ~sw_ev'.bcast
            /\ w_pc' = w_pc
            /\ w_r' = w_r]_vars

\* C3 witness: the stored value was reported again while a caller is blocked
C3_Witness ==
    /\ sw_ev.op = "sw_update"
    /\ ~sw_ev.bcast
    /\ \E t \in Waiters : w_pc[t] = "blocked"

\* C4: sw_update with a different value stores it and wakes every caller
\* blocked in sw_wait_change; each woken caller eventually returns, and
\* returns with *sw set to the stored statusword.
C4_ChangeWakesAll ==
    /\ [][(sw_ev'.op = "sw_update" /\ sw_ev'.v # sw_value)
            => /\ sw_value' = sw_ev'.v
               /\ sw_ev'.bcast
               /\ \A t \in Waiters :
                     w_pc[t] = "blocked"
                        => w_pc'[t] = "woken" /\ w_r'[t] = OSAL_OK]_vars
    /\ [][\A t \in Waiters :
            (w_pc[t] = "woken" /\ w_r[t] = OSAL_OK /\ w_pc'[t] = "returned")
               => w_sw'[t] = sw_value]_vars
    /\ \A t \in Waiters :
          (w_pc[t] = "woken" /\ w_r[t] = OSAL_OK) ~> (w_pc[t] = "returned")

\* C4 witness: a change has woken two blocked callers at once
C4_Witness ==
    /\ sw_ev.op = "sw_update"
    /\ sw_ev.bcast
    /\ \A t \in Waiters : w_pc[t] = "woken" /\ w_r[t] = OSAL_OK

\* C5: sw_wait_change(v, T) with T > 0 that blocks and sees no sw_update
\* returns the timeout error, and the timeout it reports back is
\* non-positive (failures of the clock or of the wait set aside).
C5_TimeoutReported ==
    \A t \in Waiters :
        (/\ w_pc[t] = "returned"
         /\ w_in[t].to > 0
         /\ w_blk[t]
         /\ ~w_upd[t]
         /\ w_ret[t] # IL_EFAIL)
           => (w_ret[t] = IL_ETIMEDOUT /\ w_to[t] <= 0)

(***************************************************************************)
(* Subscriber registries: il_servo_base__{state,emcy}_{subscribe,           *)
(* unsubscribe}.  The two registries run the same code on their own        *)
(* fields, so the operators take the registry as a parameter.              *)
(* subs[r] holds the slots that are really allocated; sz[r] is the .sz     *)
(* field, which the code takes for the number of slots.  An access at an   *)
(* index outside the allocation is undefined behaviour: a read returns an  *)
(* arbitrary value, a write lands in memory the registry does not own.     *)
(***************************************************************************)
\* the number of slots allocated to registry r
Alloc(r) == Len(subs[r])

\* the callback/context pairs the callers subscribe with
SubInputs == {<<"cb1", "ctx1">>, <<"cb2", "ctx2">>}

\* what uninitialised memory may hold in a slot
GarbageSlots == {[cb |-> NULL, ctx |-> JUNK], [cb |-> JUNK, ctx |-> JUNK]}

\* slot i of registry r, for an index inside the allocation
SlotAt(r, i) == subs[r][i + 1]

\* the first index below sz[r], inside the allocation, whose callback is NULL
\* (the scan "for (slot = 0; slot < sz; slot++) if (!subs[slot].cb) break"
\* as far as it stays inside the allocation), or -1
FirstEmpty(r) ==
    LET lim == IF sz[r] < Alloc(r) THEN sz[r] ELSE Alloc(r)
        empty == {i \in 0..(lim - 1) : SlotAt(r, i).cb = NULL}
    IN  IF empty = {} THEN -1
        ELSE CHOOSE i \in empty : \A j \in empty : i <= j

\* where the scan can end once it has run past the allocation: at an index
\* whose (foreign) memory reads as NULL - the lowest and the highest such
\* index stand for all of them - or at sz[r], finding none
ScanPastAlloc(r) == {Alloc(r), sz[r] - 1, sz[r]}

\* the results the scan of subscribe can have
ScanResults(r) ==
    IF FirstEmpty(r) >= 0 THEN {FirstEmpty(r)}
    ELSE IF sz[r] <= Alloc(r) THEN {sz[r]}
    ELSE ScanPastAlloc(r)

\* the value subscribe stores into .sz after a growth:
\* sz = 2 * servo->state_subs.sz * sizeof(*subs); ...; servo->state_subs.sz = sz
GrownSz(old) == 2 * old * SIZEOF_SUB

\* the number of slots realloc(subs, 2 * sz * sizeof(*subs)) provides
GrownAlloc(old) == (2 * old * SIZEOF_SUB) \div SIZEOF_SUB

\* subs[slot].cb = NULL; subs[slot].ctx = NULL, for a slot inside the allocation
ClearSlot(slots, i) == [slots EXCEPT ![i + 1] = EmptySlot]

\* a plausible slip: the failure path returns without unlocking
LockOnAllocFail_Kept == "leaked"

\* the registry lock after "r = IL_ENOMEM; goto unlock"
LockOnAllocFail == "free"

\* subscribe(servo, cb, ctx) on registry r; alloc_ok: realloc succeeds;
\* slot: the result of the scan; garbage: what the memory added by realloc holds
Subscribe(r, cb, ctx, slot, alloc_ok, garbage) ==
    /\ lock[r] = "free"
    /\ slot \in ScanResults(r)
    /\ IF slot = sz[r] /\ ~alloc_ok
       THEN \* realloc failed: r = IL_ENOMEM; goto unlock
            /\ call' = [op |-> "subscribe", reg |-> r, slot |-> slot, cb |-> cb,
                        ctx |-> ctx, err |-> IL_ENOMEM, oob |-> FALSE]
            /\ lock' = [lock EXCEPT ![r] = LockOnAllocFail]
            /\ UNCHANGED <<subs, sz>>
       ELSE LET grow == slot = sz[r]
                alloc1 == IF grow THEN GrownAlloc(sz[r]) ELSE Alloc(r)
                slots1 == IF grow
                          THEN [k \in 1..alloc1 |->
                                  IF k <= Alloc(r) THEN subs[r][k] ELSE garbage]
                          ELSE subs[r]
            IN  /\ grow => GrownSz(sz[r]) <= MaxSz
                /\ sz' = IF grow THEN [sz EXCEPT ![r] = GrownSz(sz[r])] ELSE sz
                /\ subs' = [subs EXCEPT ![r] =
                              IF slot < alloc1
                              THEN [slots1 EXCEPT ![slot + 1] =
                                       [cb |-> cb, ctx |-> ctx]]
                              ELSE slots1]
                /\ call' = [op |-> "subscribe", reg |-> r, slot |-> slot,
                            cb |-> cb, ctx |-> ctx, err |-> IL_OK,
                            oob |-> slot >= alloc1]
                /\ UNCHANGED lock

\* unsubscribe(servo, slot) on registry r
Unsubscribe(r, slot) ==
    /\ lock[r] = "free"
    /\ IF slot >= sz[r]
       THEN \* "skip out of range slot": return, with the lock still held
            /\ lock' = [lock EXCEPT ![r] = "leaked"]
            /\ call' = [op |-> "unsubscribe", reg |-> r, slot |-> slot,
                        cb |-> NULL, ctx |-> NULL, err |-> IL_OK, oob |-> FALSE]
            /\ UNCHANGED <<subs, sz>>
       ELSE /\ subs' = [subs EXCEPT ![r] =
                          IF 0 <= slot /\ slot < Alloc(r)
                          THEN ClearSlot(subs[r], slot)
                          ELSE subs[r]]
            /\ call' = [op |-> "unsubscribe", reg |-> r, slot |-> slot,
                        cb |-> NULL, ctx |-> NULL, err |-> IL_OK,
                        oob |-> ~(0 <= slot /\ slot < Alloc(r))]
            /\ UNCHANGED <<sz, lock>>

il_servo_base__state_subscribe(cb, ctx, slot, alloc_ok, garbage) ==
    Subscribe("state", cb, ctx, slot, alloc_ok, garbage)

il_servo_base__state_unsubscribe(slot) == Unsubscribe("state", slot)

il_servo_base__emcy_subscribe(cb, ctx, slot, alloc_ok, garbage) ==
    Subscribe("emcy", cb, ctx, slot, alloc_ok, garbage)

il_servo_base__emcy_unsubscribe(slot) == Unsubscribe("emcy", slot)

\* the slot arguments the callers pass to unsubscribe
SlotArgs(r) == ((-1)..MaxSlotArg) \cup {sz[r] - 1, sz[r]}

StateSubscribe ==
    /\ focus = "state"
    /\ \E in \in SubInputs, slot \in ScanResults("state"),
          alloc_ok \in BOOLEAN, garbage \in GarbageSlots :
          il_servo_base__state_subscribe(in[1], in[2], slot, alloc_ok, garbage)
    /\ UNCHANGED <<focus, outsideSubs>>

StateUnsubscribe ==
    /\ focus = "state"
    /\ \E slot \in SlotArgs("state") : il_servo_base__state_unsubscribe(slot)
    /\ UNCHANGED <<focus, outsideSubs>>

EmcySubscribe ==
    /\ focus = "emcy"
    /\ \E in \in SubInputs, slot \in ScanResults("emcy"),
          alloc_ok \in BOOLEAN, garbage \in GarbageSlots :
          il_servo_base__emcy_subscribe(in[1], in[2], slot, alloc_ok, garbage)
    /\ UNCHANGED <<focus, outsideSubs>>

EmcyUnsubscribe ==
    /\ focus = "emcy"
    /\ \E slot \in SlotArgs("emcy") : il_servo_base__emcy_unsubscribe(slot)
    /\ UNCHANGED <<focus, outsideSubs>>

\* a behaviour exercises one of the two (independent) registries
InitSubs ==
    /\ InitEmcyVars
    /\ InitRegVars
    /\ InitSwVars
    /\ focus \in Regs
    /\ call = NoCall
    /\ InitLifeVars
    /\ InitSmVars
    /\ InitIoVars
    /\ InitDictVars

NextSubs ==
    \/ StateSubscribe
    \/ StateUnsubscribe
    \/ EmcySubscribe
    \/ EmcyUnsubscribe

SpecSubs == InitSubs /\ [][NextSubs]_vars

(***************************************************************************)
(* C6 .. C9: unsubscribe, growth and slot reuse.                           *)
(***************************************************************************)
\* slot i is one of the slots registry r believes to have
InRange(r, i) == 0 <= i /\ i < sz[r]

\* every slot registry r believes to have holds a callback
AllOccupied(r) ==
    /\ sz[r] <= Alloc(r)
    /\ \A i \in 0..(sz[r] - 1) : SlotAt(r, i).cb # NULL

\* C6: unsubscribe with a slot out of the registry's bounds modifies no slot
\* and releases the registry lock before returning, so that the lock is free
\* after every return of unsubscribe.
C6_UnsubscribeReleasesLock ==
    [][(call'.op = "unsubscribe" /\ ~InRange(call'.reg, call'.slot))
         => /\ subs' = subs
            /\ lock'[call'.reg] = "free"]_vars

\* C7: when subscribe finds every slot occupied, the capacity becomes exactly
\* twice the previous capacity, every previously occupied slot keeps its
\* callback and context, and the new subscriber is stored at the index equal
\* to the previous capacity.
C7_GrowthDoubles ==
    [][(call'.op = "subscribe" /\ call'.err = IL_OK /\ AllOccupied(call'.reg))
         => LET r == call'.reg
            IN  /\ sz'[r] = 2 * sz[r]
                /\ call'.slot = sz[r]
                /\ Len(subs'[r]) >= sz'[r]
                /\ \A i \in 0..(sz[r] - 1) : subs'[r][i + 1] = subs[r][i + 1]
                /\ subs'[r][sz[r] + 1] = [cb |-> call'.cb, ctx |-> call'.ctx]]_vars

\* the lowest empty slot of registry r, or -1 if it has none
LowestEmpty(r) ==
    LET empty == {i \in 0..(sz[r] - 1) : i < Alloc(r) /\ SlotAt(r, i).cb = NULL}
    IN  IF empty = {} THEN -1
        ELSE CHOOSE i \in empty : \A j \in empty : i <= j

\* C8: a subscribe that finds an empty slot stores the callback and context
\* in the lowest-index empty slot and returns that index; a subscribe on a
\* registry without an empty slot stores them in a new slot of the registry;
\* so unsubscribing slot k and subscribing again returns k whenever no slot
\* below k is empty.
C8_LowestEmptySlot ==
    [][(call'.op = "subscribe" /\ call'.err = IL_OK)
         => LET r == call'.reg
                k == call'.slot
            IN  /\ LowestEmpty(r) >= 0 => k = LowestEmpty(r)
                /\ k < Len(subs'[r])
                /\ subs'[r][k + 1] = [cb |-> call'.cb, ctx |-> call'.ctx]
                /\ (/\ call.op = "unsubscribe"
                    /\ call.reg = r
                    /\ InRange(r, call.slot)
                    /\ \A i \in 0..(call.slot - 1) :
                          i < Alloc(r) => SlotAt(r, i).cb # NULL)
                      => k = call.slot]_vars

\* C9: unsubscribe of an in-range slot clears that slot's callback and
\* context and nothing else: every other slot and the capacity are unchanged
\* and no memory outside the registry's slots is written; the capacity never
\* decreases.
C9_UnsubscribeFrame ==
    /\ [][(call'.op = "unsubscribe" /\ InRange(call'.reg, call'.slot))
            => LET r == call'.reg
                   k == call'.slot
               IN  /\ sz' = sz
                   /\ Len(subs'[r]) = Len(subs[r])
                   /\ \A q \in Regs : q # r => subs'[q] = subs[q]
                   /\ \A i \in 0..(Alloc(r) - 1) :
                         i # k => subs'[r][i + 1] = subs[r][i + 1]
                   /\ ~call'.oob
                   /\ k < Alloc(r)
                   /\ subs'[r][k + 1] = EmptySlot]_vars
    /\ [][\A r \in Regs : sz'[r] >= sz[r]]_vars

(***************************************************************************)
(* SpecLife: il_servo_base__init, one step per resource it acquires and    *)
(* per label of its cleanup chain, next to the monitor tasks it starts.    *)
(***************************************************************************)
\* the label control falls through to after label, or "return"
NextLabel(label) ==
    LET i == CHOOSE k \in 1..Len(CleanupChain) : CleanupChain[k] = label
    IN  IF i < Len(CleanupChain) THEN CleanupChain[i + 1] ELSE "return"

\* the fields the statements after a successful acquisition of res set
InitFields(res) ==
    /\ sw_value' = IF res = "sw.changed" THEN 0 ELSE sw_value
    /\ subs' = CASE res = "state_subs.subs" ->
                      [subs EXCEPT !["state"] =
                          [k \in 1..STATE_SUBS_SZ_DEF |-> EmptySlot]]
                 [] res = "emcy_subs.subs" ->
                      [subs EXCEPT !["emcy"] =
                          [k \in 1..EMCY_SUBS_SZ_DEF |-> EmptySlot]]
                 [] OTHER -> subs
    /\ sz' = CASE res = "state_subs.subs" ->
                    [sz EXCEPT !["state"] = STATE_SUBS_SZ_DEF]
               [] res = "emcy_subs.subs" ->
                    [sz EXCEPT !["emcy"] = EMCY_SUBS_SZ_DEF]
               [] OTHER -> sz
    /\ state_stop' = IF res = "state_subs.lock" THEN FALSE ELSE state_stop
    /\ em_stop' = IF res = "emcy_subs.lock" THEN FALSE ELSE em_stop
    /\ emcy' = IF res = "emcy.not_empty"
               THEN [emcy EXCEPT !.head = 0, !.tail = 0, !.sz = EMCY_QUEUE_SZ]
               ELSE emcy
    /\ task' = CASE res = "state_subs.monitor" ->
                      [task EXCEPT !["state"] = "running"]
                 [] res = "emcy_subs.monitor" ->
                      [task EXCEPT !["emcy"] = "running"]
                 [] OTHER -> task

\* what il_servo_base__init leaves alone apart from the fields of InitFields
outsideInit == <<emcy_lock, em_pc, em_r, em_code, em_i, pushed, evicted,
                 popped, delivered, first_pop_at, lock, w_pc, w_sw, w_to,
                 w_start, w_deadline, w_r, w_ret, w_in, w_upd, w_blk, now,
                 sw_ev, callVars, init_dict, deinitVars, smVars, ioVars, dictVars>>

\* the next acquisition of il_servo_base__init; ok: it succeeds
InitAcquire(ok) ==
    /\ init_pc = "acquire"
    /\ LET res == InitOrder[init_step]
           last == init_step = Len(InitOrder)
       IN  IF res = "dict" /\ ~init_dict
           THEN \* servo->dict = NULL
                /\ servo_dict' = FALSE
                /\ init_step' = init_step + 1
                /\ UNCHANGED <<init_pc, init_r, held, acq_log, rel_log,
                               init_failed, sw_value, subs, sz, state_stop,
                               em_stop, emcy, task>>
           ELSE IF ok \/ res = "net"
           THEN /\ held' = held \cup {res}
                /\ acq_log' = Append(acq_log, res)
                /\ servo_dict' = IF res = "dict" THEN TRUE ELSE servo_dict
                /\ InitFields(res)
                /\ init_step' = IF last THEN 0 ELSE init_step + 1
                /\ init_pc' = IF last THEN "returned" ELSE init_pc
                /\ init_r' = IF last THEN IL_OK ELSE init_r
                /\ UNCHANGED <<rel_log, init_failed>>
           ELSE /\ init_r' = ErrOf(res)
                /\ init_failed' = res
                /\ servo_dict' = IF res = "dict" THEN FALSE ELSE servo_dict
                /\ init_pc' = OnFail(res)
                /\ init_step' = 0
                /\ UNCHANGED <<held, acq_log, rel_log, sw_value, subs, sz,
                               state_stop, em_stop, emcy, task>>
    /\ UNCHANGED outsideInit

\* the code under a label of the cleanup chain, but for the monitor's
InitCleanup ==
    /\ init_pc \in Range(CleanupChain)
    /\ init_pc # "cleanup_state_subs_monitor"
    /\ LET res == CleanupOf(init_pc)
           skip == res = "dict" /\ ~servo_dict
       IN  /\ rel_log' = IF skip THEN rel_log ELSE Append(rel_log, res)
           /\ held' = IF skip THEN held ELSE held \ {res}
           /\ subs' = CASE res = "state_subs.subs" ->
                             [subs EXCEPT !["state"] = <<>>]
                        [] res = "emcy_subs.subs" ->
                             [subs EXCEPT !["emcy"] = <<>>]
                        [] OTHER -> subs
    /\ init_pc' = IF NextLabel(init_pc) = "return" THEN "returned"
                  ELSE NextLabel(init_pc)
    /\ UNCHANGED <<init_step, init_r, servo_dict, acq_log, init_failed,
                   sw_value, sz, state_stop, em_stop, emcy, task, outsideInit>>

\* cleanup_state_subs_monitor: servo->state_subs.stop = 1
InitStopMonitor ==
    /\ init_pc = "cleanup_state_subs_monitor"
    /\ state_stop' = TRUE
    /\ init_pc' = "join_state_subs_monitor"
    /\ UNCHANGED <<init_step, init_r, servo_dict, held, acq_log, rel_log,
                   init_failed, sw_value, subs, sz, em_stop, emcy, task,
                   outsideInit>>

\* osal_thread_join(servo->state_subs.monitor, NULL) returns
InitJoinMonitor ==
    /\ init_pc = "join_state_subs_monitor"
    /\ task["state"] = "exited"
    /\ rel_log' = Append(rel_log, "state_subs.monitor")
    /\ held' = held \ {"state_subs.monitor"}
    /\ init_pc' = NextLabel("cleanup_state_subs_monitor")
    /\ UNCHANGED <<init_step, init_r, servo_dict, acq_log, init_failed,
                   sw_value, subs, sz, state_stop, em_stop, emcy, task,
                   outsideInit>>

il_servo_base__init ==
    \/ \E ok \in BOOLEAN : InitAcquire(ok)
    \/ InitCleanup
    \/ InitStopMonitor
    \/ InitJoinMonitor

\* the stop flag of the monitor task of registry r
StopFlag(r) == IF r = "state" THEN state_stop ELSE em_stop

\* a monitor task tests its stop flag: while (!stop)
TaskLoop(r) ==
    /\ task[r] = "running"
    /\ task' = [task EXCEPT ![r] = IF StopFlag(r) THEN "exited" ELSE "waiting"]
    /\ UNCHANGED <<emcyVars, regVars, swVars, callVars, init_pc, init_step,
                   init_dict, init_r, servo_dict, state_stop, held, acq_log,
                   rel_log, init_failed, deinitVars, smVars, ioVars, dictVars>>

\* its wait (sw_wait_change, osal_cond_wait) and the fan-out that follows end
TaskWake(r) ==
    /\ task[r] = "waiting"
    /\ task' = [task EXCEPT ![r] = "running"]
    /\ UNCHANGED <<emcyVars, regVars, swVars, callVars, init_pc, init_step,
                   init_dict, init_r, servo_dict, state_stop, held, acq_log,
                   rel_log, init_failed, deinitVars, smVars, ioVars, dictVars>>

\* what il_servo_base__deinit leaves alone
outsideDeinit == <<emcy, emcy_lock, em_pc, em_r, em_code, em_i, pushed,
                   evicted, popped, delivered, first_pop_at, sz, lock, swVars,
                   callVars, init_pc, init_step, init_dict, init_r, servo_dict,
                   task, acq_log, init_failed, smVars, ioVars, dictVars>>

\* il_servo_base__deinit is called on a servo that il_servo_base__init built
DeinitCall ==
    /\ init_pc = "returned"
    /\ init_r = IL_OK
    /\ deinit_pc = "idle"
    /\ deinit_pc' = "step"
    /\ deinit_step' = 1
    /\ UNCHANGED <<subs, em_stop, state_stop, held, rel_log, outsideDeinit>>

\* the next statement of il_servo_base__deinit: a stop flag is set, or a
\* resource is destroyed, freed or unsubscribed
DeinitStep ==
    /\ deinit_pc = "step"
    /\ LET res == DeinitOrder[deinit_step]
           last == deinit_step = Len(DeinitOrder)
       IN  IF res \in {"emcy_subs.monitor", "state_subs.monitor"}
           THEN \* stop = 1
                /\ em_stop' = IF res = "emcy_subs.monitor" THEN TRUE ELSE em_stop
                /\ state_stop' = IF res = "state_subs.monitor" THEN TRUE
                                 ELSE state_stop
                /\ deinit_pc' = "join"
                /\ UNCHANGED <<deinit_step, subs, held, rel_log>>
           ELSE LET skip == res = "dict" /\ ~servo_dict
                IN  /\ rel_log' = IF skip THEN rel_log ELSE Append(rel_log, res)
                    /\ held' = IF skip THEN held ELSE held \ {res}
                    /\ subs' = CASE res = "state_subs.subs" ->
                                      [subs EXCEPT !["state"] = <<>>]
                                 [] res = "emcy_subs.subs" ->
                                      [subs EXCEPT !["emcy"] = <<>>]
                                 [] OTHER -> subs
                    /\ deinit_pc' = IF last THEN "returned" ELSE "step"
                    /\ deinit_step' = IF last THEN 0 ELSE deinit_step + 1
                    /\ UNCHANGED <<em_stop, state_stop>>
    /\ UNCHANGED outsideDeinit

\* osal_thread_join on the monitor whose stop flag was just set returns
DeinitJoin ==
    /\ deinit_pc = "join"
    /\ LET res == DeinitOrder[deinit_step]
       IN  /\ task[MonitorReg(res)] = "exited"
           /\ rel_log' = Append(rel_log, res)
           /\ held' = held \ {res}
    /\ deinit_pc' = "step"
    /\ deinit_step' = deinit_step + 1
    /\ UNCHANGED <<subs, em_stop, state_stop, outsideDeinit>>

il_servo_base__deinit ==
    \/ DeinitCall
    \/ DeinitStep
    \/ DeinitJoin

\* before il_servo_base__init: nothing is acquired, no task runs
InitLife ==
    /\ InitEmcyVars
    /\ InitSwVars
    /\ InitCallVars
    /\ InitSmVars
    /\ InitIoVars
    /\ InitDictVars
    /\ subs = [r \in Regs |-> <<>>]
    /\ sz = [r \in Regs |-> 0]
    /\ lock = [r \in Regs |-> "free"]
    /\ init_pc = "acquire"
    /\ init_step = 1
    /\ init_dict \in BOOLEAN
    /\ init_r = IL_OK
    /\ servo_dict = FALSE
    /\ state_stop = FALSE
    /\ task = [r \in Regs |-> "none"]
    /\ held = {}
    /\ acq_log = <<>>
    /\ rel_log = <<>>
    /\ init_failed = "none"
    /\ deinit_pc = "idle"
    /\ deinit_step = 0

NextLife ==
    \/ il_servo_base__init
    \/ il_servo_base__deinit
    \/ \E r \in Regs : TaskLoop(r)
    \/ \E r \in Regs : TaskWake(r)

SpecLife == InitLife /\ [][NextLife]_vars

(***************************************************************************)
(* C10: construction rollback.                                             *)
(***************************************************************************)
\* C10: when an acquisition step of il_servo_base__init fails, the call
\* returns the error, and by then every resource acquired before the failing
\* step has been released exactly once, in the reverse of the acquisition
\* order, and nothing else has been released; a monitor task that was started
\* has its stop flag set and is joined before the locks and the condition it
\* works with are destroyed.
C10_Rollback ==
    /\ (init_pc = "returned" /\ init_failed # "none")
         => /\ init_r = ErrOf(init_failed)
            /\ init_r # IL_OK
            /\ rel_log = Reverse(acq_log)
            /\ held = {}
            /\ \A r \in Regs : task[r] \in {"none", "exited"}
    /\ (init_pc = "returned" /\ init_failed = "none") => init_r = IL_OK
    /\ \A r \in Regs :
          task[r] \in {"running", "waiting"} => TaskUses(r) \subseteq held
    /\ \A i \in 1..Len(rel_log) :
          (rel_log[i] \in TaskUses("state") /\ task["state"] # "none")
            => /\ state_stop
               /\ \E j \in 1..(i - 1) : rel_log[j] = "state_subs.monitor"

\* a failure to create emcy.lock, after the state monitor was started, has
\* been rolled back down to the transport reference
C10_Witness ==
    /\ init_pc = "returned"
    /\ init_failed = "emcy.lock"
    /\ init_dict
    /\ Len(acq_log) = 9
    /\ Len(rel_log) = 9
    /\ task["state"] = "exited"

(***************************************************************************)
(* C11, C13, C14: destruction.                                             *)
(***************************************************************************)
\* the resource that is the monitor task of registry r
MonitorOf(r) == IF r = "state" THEN "state_subs.monitor" ELSE "emcy_subs.monitor"

\* C11: in destruction and in construction rollback a monitor task has its
\* stop flag set and is joined before any lock or condition it works with is
\* destroyed, so that a monitor task that still runs finds all of them alive.
C11_JoinBeforeDestroy ==
    \A r \in Regs :
       /\ task[r] \in {"running", "waiting"} => TaskUses(r) \subseteq held
       /\ \A i \in 1..Len(rel_log) :
             (rel_log[i] \in TaskUses(r) /\ MonitorOf(r) \in Range(acq_log))
               => /\ StopFlag(r)
                  /\ task[r] = "exited"
                  /\ \E j \in 1..(i - 1) : rel_log[j] = MonitorOf(r)

\* il_servo_base__deinit has returned: both monitors were joined and the
\* locks and conditions they worked with are destroyed
C11_Witness ==
    /\ deinit_pc = "returned"
    /\ \A r \in Regs : task[r] = "exited" /\ TaskUses(r) \cap held = {}

\* the number of times resource res occurs in log
Count(log, res) == Cardinality({i \in 1..Len(log) : log[i] = res})

\* C13: after a successful il_servo_base__init followed by
\* il_servo_base__deinit the transport handle has been released as many
\* times as it was retained.
C13_TransportReleased ==
    deinit_pc = "returned" => Count(rel_log, "net") = Count(acq_log, "net")

\* the per-servo structures construction built, without the transport handle
Structures == SelectSeq(acq_log, LAMBDA res : res # "net")

\* C14: il_servo_base__deinit tears the per-servo structures down in exactly
\* the reverse of the order in which il_servo_base__init built them, from the
\* emergency monitor down to the dictionary.
C14_ReverseTeardown ==
    /\ deinit_pc # "idle" => IsPrefix(rel_log, Reverse(Structures))
    /\ deinit_pc = "returned" => rel_log = Reverse(Structures)

\* a servo built with a dictionary has been torn down completely
C14_Witness ==
    /\ deinit_pc = "returned"
    /\ init_dict
    /\ Len(rel_log) = 14
    /\ rel_log[1] = "emcy_subs.monitor"
    /\ rel_log[14] = "dict"

(***************************************************************************)
(* SpecMon: state_subs_monitor next to the callers of unsubscribe on the   *)
(* state registry, statusword updates and the request to stop.  The        *)
(* registry starts as earlier subscribe calls left it.                     *)
(***************************************************************************)
\* what the state monitor leaves alone apart from the registry lock
outsideSm == <<emcyVars, subs, sz, swVars, callVars, lifeVars, ioVars, dictVars>>

\* sw = servo->sw.value, read under sw.lock before the loop
SmStart ==
    /\ sm_pc = "start"
    /\ sm_sw' = sw_value
    /\ sm_pc' = "loop"
    /\ UNCHANGED <<sm_i, sm_ctx, sm_calls, lock, outsideSm>>

\* while (!servo->state_subs.stop)
SmLoop ==
    /\ sm_pc = "loop"
    /\ sm_pc' = IF state_stop THEN "done" ELSE "wait"
    /\ UNCHANGED <<sm_sw, sm_i, sm_ctx, sm_calls, lock, outsideSm>>

\* what sw_wait_change(servo, &sw, &timeout) with the positive timeout
\* STATE_SUBS_TIMEOUT can return with: 0 after reading the stored value into
\* sw (a changed one, or the same one when the change that ended the wait
\* was undone before the value was read), or an error (time-out, clock
\* failure) with sw as it was or, when the change came as the time ran out,
\* already overwritten
SmWaitResults ==
    {[ret |-> IL_OK, sw |-> sw_value]}
      \cup {[ret |-> IL_ETIMEDOUT, sw |-> sm_sw],
            [ret |-> IL_ETIMEDOUT, sw |-> sw_value],
            [ret |-> IL_EFAIL, sw |-> sm_sw]}

\* sw_wait_change returns: "if (... < 0) continue;", else the state is decoded
SmWait ==
    /\ sm_pc = "wait"
    /\ \E res \in SmWaitResults :
          /\ sm_sw' = res.sw
          /\ sm_pc' = IF res.ret = IL_OK THEN "fanlock" ELSE "loop"
    /\ UNCHANGED <<sm_i, sm_ctx, sm_calls, lock, outsideSm>>

\* a plausible slip: the monitor iterates over the slots without the lock
FanLocked_NotTaken(l) == l

\* the registry locks once the monitor has taken state_subs.lock
FanLocked(l) == [l EXCEPT !["state"] = "mon"]

\* osal_mutex_lock(servo->state_subs.lock)
SmFanLock ==
    /\ sm_pc = "fanlock"
    /\ lock["state"] = "free"
    /\ lock' = FanLocked(lock)
    /\ sm_i' = 0
    /\ sm_calls' = <<>>
    /\ sm_pc' = "fan"
    /\ UNCHANGED <<sm_sw, sm_ctx, outsideSm>>

\* what the iterations past the allocated slots can invoke: nothing, when
\* the foreign memory reads as NULL, or whatever it holds at some index - the
\* lowest and the highest stand for all of them
FanPastAlloc ==
    {<<>>} \cup {<<<<j, JUNK, JUNK, sm_sw>>>> : j \in {Alloc("state"), sz["state"] - 1}}

\* the iterations of for (i = 0; i < servo->state_subs.sz; i++): for a slot
\* inside the allocation "if (!subs[i].cb) continue; ctx = subs[i].ctx;", or
\* all the indexes past the allocation
SmFan ==
    /\ sm_pc = "fan"
    /\ sm_i < sz["state"]
    /\ IF sm_i < Alloc("state")
       THEN LET s == SlotAt("state", sm_i)
            IN  IF s.cb # NULL
                THEN /\ sm_ctx' = s.ctx
                     /\ sm_pc' = "call"
                     /\ UNCHANGED <<sm_i, sm_calls>>
                ELSE /\ sm_i' = sm_i + 1
                     /\ UNCHANGED <<sm_pc, sm_ctx, sm_calls>>
       ELSE /\ \E junk \in FanPastAlloc : sm_calls' = sm_calls \o junk
            /\ sm_i' = sz["state"]
            /\ UNCHANGED <<sm_pc, sm_ctx>>
    /\ UNCHANGED <<sm_sw, lock, outsideSm>>

\* servo->state_subs.subs[i].cb(ctx, state, flags): the callback is read from
\* the slot for the call; ctx goes out of scope with the iteration
SmCall ==
    /\ sm_pc = "call"
    /\ sm_calls' = Append(sm_calls,
                          <<sm_i, SlotAt("state", sm_i).cb, sm_ctx, sm_sw>>)
    /\ sm_i' = sm_i + 1
    /\ sm_ctx' = NULL
    /\ sm_pc' = "fan"
    /\ UNCHANGED <<sm_sw, lock, outsideSm>>

\* osal_mutex_unlock(servo->state_subs.lock) after the last iteration
SmFanUnlock ==
    /\ sm_pc = "fan"
    /\ sm_i >= sz["state"]
    /\ lock' = [lock EXCEPT !["state"] = "free"]
    /\ sm_pc' = "loop"
    /\ UNCHANGED <<sm_sw, sm_i, sm_ctx, sm_calls, outsideSm>>

state_subs_monitor ==
    \/ SmStart
    \/ SmLoop
    \/ SmWait
    \/ SmFanLock
    \/ SmFan
    \/ SmCall
    \/ SmFanUnlock

\* il_servo_base__deinit sets state_subs.stop = 1
StateStop ==
    /\ ~state_stop
    /\ state_stop' = TRUE
    /\ UNCHANGED <<emcyVars, regVars, swVars, callVars, smVars, ioVars, dictVars, init_pc,
                   init_step, init_dict, init_r, servo_dict, task, held,
                   acq_log, rel_log, init_failed, deinitVars>>

\* the state registries that up to four subscribe calls leave behind; the
\* third call grows the registry (GrownAlloc, GrownSz) and leaves the last
\* slot uninitialised until the fourth call finds it empty
StateRegistries ==
    LET a == [cb |-> "cb1", ctx |-> "ctx1"]
        b == [cb |-> "cb2", ctx |-> "ctx2"]
        n == STATE_SUBS_SZ_DEF
    IN  {[subs |-> <<EmptySlot, EmptySlot>>, sz |-> n],
         [subs |-> <<a, EmptySlot>>, sz |-> n],
         [subs |-> <<a, b>>, sz |-> n]}
          \cup {[subs |-> <<a, b, a, g>>, sz |-> GrownSz(n)] : g \in GarbageSlots}
          \cup {[subs |-> <<a, b, a, b>>, sz |-> GrownSz(n)]}

InitMon ==
    /\ InitEmcyVars
    /\ \E reg \in StateRegistries :
          /\ subs = [r \in Regs |-> IF r = "state" THEN reg.subs
                                    ELSE [k \in 1..EMCY_SUBS_SZ_DEF |-> EmptySlot]]
          /\ sz = [r \in Regs |-> IF r = "state" THEN reg.sz
                                  ELSE EMCY_SUBS_SZ_DEF]
    /\ lock = [r \in Regs |-> "free"]
    /\ InitSwVars
    /\ InitCallVars
    /\ InitLifeVars
    /\ InitSmVars
    /\ InitIoVars
    /\ InitDictVars

NextMon ==
    \/ state_subs_monitor
    \/ StateUnsubscribe
    \/ SwArrives
    \/ StateStop

\* the monitor thread is scheduled fairly
SpecMon == InitMon /\ [][NextMon]_vars /\ WF_vars(state_subs_monitor)

(***************************************************************************)
(* C12, C17: shutdown and fan-out of the state monitor.                    *)
(***************************************************************************)
\* C12: whatever subscribe and unsubscribe calls (with any slot arguments)
\* and statusword updates have happened, once the stop flag of the state
\* monitor is set the monitor leaves its loop, so that the join in
\* il_servo_base__deinit returns.
C12_StopTerminates == state_stop ~> (sm_pc = "done")

\* the invocations a fan-out of the value sw owes to the slots of registry r:
\* one per slot that holds a callback, in increasing slot order, with the
\* slot's own callback and context
OwedCalls(r, sw) ==
    LET idx == [k \in 1..Alloc(r) |-> k - 1]
        occ == SelectSeq(idx, LAMBDA i : SlotAt(r, i).cb # NULL)
    IN  [k \in 1..Len(occ) |->
           <<occ[k], SlotAt(r, occ[k]).cb, SlotAt(r, occ[k]).ctx, sw>>]

\* C17: for each fan-out event the monitor invokes the callback of every
\* occupied slot exactly once, in increasing slot order, with that slot's own
\* context, and invokes nothing else.
C17_FanOutOrder ==
    (sm_pc = "fan" /\ sm_i >= sz["state"])
      => sm_calls = OwedCalls("state", sm_sw)

(***************************************************************************)
(* Register access: get_reg, raw_read, raw_write.                          *)
(***************************************************************************)
DTypes == {"u16", "float"}
Accesses == {"RO", "WO", "RW"}

\* the argument reg_pdef == NULL
NoReg == [dtype |-> "none", access |-> "none", address |-> 0]

\* the pre-defined registers the callers pass
PdefRegs == {[dtype |-> d, access |-> a, address |-> 1] : d \in DTypes, a \in Accesses}

\* the registers of the loaded dictionary, by identifier
DictRegs ==
    [id \in {"id_rw", "id_ro", "id_wo"} |->
        CASE id = "id_rw" -> [dtype |-> "u16", access |-> "RW", address |-> 2]
          [] id = "id_ro" -> [dtype |-> "float", access |-> "RO", address |-> 3]
          [] id = "id_wo" -> [dtype |-> "u16", access |-> "WO", address |-> 4]]

\* the identifiers the callers pass
Ids == DOMAIN DictRegs \cup {"id_unknown"}

\* il_dict_reg_get(dict, id, &reg)
il_dict_reg_get(id) ==
    IF id \in DOMAIN DictRegs THEN [r |-> IL_OK, reg |-> DictRegs[id]]
    ELSE [r |-> IL_EFAIL, reg |-> NoReg]

\* get_reg(dict, reg_pdef, id, &reg); dict: a dictionary is loaded
get_reg(dict, reg_pdef, id) ==
    IF reg_pdef # NoReg THEN [r |-> IL_OK, reg |-> reg_pdef]
    ELSE IF ~dict THEN [r |-> IL_EFAIL, reg |-> NoReg]
    ELSE il_dict_reg_get(id)

\* a plausible slip: the access mode is verified before the data type
raw_read_AccessFirst(dict, reg_pdef, id, dtype) ==
    LET g == get_reg(dict, reg_pdef, id)
    IN  IF g.r # IL_OK THEN [ret |-> g.r, net |-> NoNet]
        ELSE IF g.reg.access = "WO" THEN [ret |-> IL_EACCESS, net |-> NoNet]
        ELSE IF g.reg.dtype # dtype THEN [ret |-> IL_EINVAL, net |-> NoNet]
        ELSE [ret |-> IL_OK,
              net |-> [fn |-> "il_net__read", address |-> g.reg.address,
                       confirmed |-> 0]]

\* a plausible slip: the access mode is not looked at before reading
raw_read_NoAccessCheck(dict, reg_pdef, id, dtype) ==
    LET g == get_reg(dict, reg_pdef, id)
    IN  IF g.r # IL_OK THEN [ret |-> g.r, net |-> NoNet]
        ELSE IF g.reg.dtype # dtype THEN [ret |-> IL_EINVAL, net |-> NoNet]
        ELSE [ret |-> IL_OK,
              net |-> [fn |-> "il_net__read", address |-> g.reg.address,
                       confirmed |-> 0]]

\* raw_read(servo, reg_pdef, id, dtype, buf, sz): the value returned before
\* the transport is called, or the call il_net__read(net, id, address, ...)
raw_read(dict, reg_pdef, id, dtype) ==
    LET g == get_reg(dict, reg_pdef, id)
    IN  IF g.r # IL_OK THEN [ret |-> g.r, net |-> NoNet]
        ELSE IF g.reg.dtype # dtype THEN [ret |-> IL_EINVAL, net |-> NoNet]
        ELSE IF g.reg.access = "WO" THEN [ret |-> IL_EACCESS, net |-> NoNet]
        ELSE [ret |-> IL_OK,
              net |-> [fn |-> "il_net__read", address |-> g.reg.address,
                       confirmed |-> 0]]

\* a plausible slip: a type of the same signedness class is let through
\* (only the descriptor's access mode is verified)
raw_write_NoTypeCheck(dict, reg_pdef, id, dtype, confirmed) ==
    LET g == get_reg(dict, reg_pdef, id)
    IN  IF g.r # IL_OK THEN [ret |-> g.r, net |-> NoNet]
        ELSE IF g.reg.access = "RO" THEN [ret |-> IL_EACCESS, net |-> NoNet]
        ELSE [ret |-> IL_OK,
              net |-> [fn |-> "il_net__write", address |-> g.reg.address,
                       confirmed |-> IF g.reg.access = "WO" THEN 0
                                     ELSE confirmed]]

\* a plausible slip: the caller's confirm flag is always passed on
raw_write_ConfirmAsAsked(dict, reg_pdef, id, dtype, confirmed) ==
    LET g == get_reg(dict, reg_pdef, id)
    IN  IF g.r # IL_OK THEN [ret |-> g.r, net |-> NoNet]
        ELSE IF g.reg.dtype # dtype THEN [ret |-> IL_EINVAL, net |-> NoNet]
        ELSE IF g.reg.access = "RO" THEN [ret |-> IL_EACCESS, net |-> NoNet]
        ELSE [ret |-> IL_OK,
              net |-> [fn |-> "il_net__write", address |-> g.reg.address,
                       confirmed |-> confirmed]]

\* raw_write(servo, reg_pdef, id, dtype, data, sz, confirmed)
raw_write(dict, reg_pdef, id, dtype, confirmed) ==
    LET g == get_reg(dict, reg_pdef, id)
    IN  IF g.r # IL_OK THEN [ret |-> g.r, net |-> NoNet]
        ELSE IF g.reg.dtype # dtype THEN [ret |-> IL_EINVAL, net |-> NoNet]
        ELSE IF g.reg.access = "RO" THEN [ret |-> IL_EACCESS, net |-> NoNet]
        ELSE [ret |-> IL_OK,
              net |-> [fn |-> "il_net__write", address |-> g.reg.address,
                       confirmed |-> IF g.reg.access = "WO" THEN 0
                                     ELSE confirmed]]

\* the registry locks the application thread holds: those an unsubscribe
\* call of its returned with
Held == {r \in Regs : lock[r] = "leaked"}

\* what a raw read or write leaves alone
outsideIo == <<emcyVars, regVars, swVars, callVars, lifeVars, smVars,
               acc, wire, dictVars>>

\* il_servo_base__raw_read_<dtype>(servo, reg, id, buf) on the application
\* thread; the transport, when called, succeeds or fails
ServoRawRead ==
    /\ deinit_pc = "idle"
    /\ \E reg_pdef \in PdefRegs \cup {NoReg}, id \in Ids, dtype \in DTypes,
          net_ret \in {IL_OK, IL_ENET} :
          LET res == raw_read(servo_dict, reg_pdef, id, dtype)
          IN  io' = [op |-> "raw_read",
                     ret |-> IF res.net = NoNet THEN res.ret ELSE net_ret,
                     net |-> res.net, held |-> Held]
    /\ UNCHANGED outsideIo

\* il_servo_base__raw_write_<dtype>(servo, reg, id, val, confirm)
ServoRawWrite ==
    /\ deinit_pc = "idle"
    /\ \E reg_pdef \in PdefRegs \cup {NoReg}, id \in Ids, dtype \in DTypes,
          confirmed \in {0, 1}, net_ret \in {IL_OK, IL_ENET} :
          LET res == raw_write(servo_dict, reg_pdef, id, dtype, confirmed)
          IN  io' = [op |-> "raw_write",
                     ret |-> IF res.net = NoNet THEN res.ret ELSE net_ret,
                     net |-> res.net, held |-> Held]
    /\ UNCHANGED outsideIo

(***************************************************************************)
(* SpecNet: the application thread reads and writes registers,             *)
(* unsubscribes and destroys the servo; the calls into the transport.      *)
(***************************************************************************)
InitNet ==
    /\ InitEmcyVars
    /\ InitRegVars
    /\ InitSwVars
    /\ focus \in Regs
    /\ call = NoCall
    /\ InitLifeVars
    /\ InitSmVars
    /\ InitIoVars
    /\ InitDictVars

NextNet ==
    \/ ServoRawRead
    \/ ServoRawWrite
    \/ StateUnsubscribe
    \/ EmcyUnsubscribe
    \/ il_servo_base__deinit
    \/ \E r \in Regs : TaskLoop(r)
    \/ \E r \in Regs : TaskWake(r)

SpecNet == InitNet /\ [][NextNet]_vars

\* the resources whose release is a call into the transport
TransportRes == {"net", "sw.slot", "emcy.slot"}

\* C15: the calling thread holds no servo lock at the moment it calls into
\* the transport: not when raw_read or raw_write call il_net__read or
\* il_net__write, and not when destruction unsubscribes from the transport.
C15_NoLockAcrossTransport ==
    /\ [](io.net # NoNet => io.held = {})
    /\ [][(Len(rel_log') > Len(rel_log)
           /\ rel_log'[Len(rel_log')] \in TransportRes) => Held = {}]_vars

(***************************************************************************)
(* C16, C18: the queue lock during fan-out, and the queue's invariant.     *)
(***************************************************************************)
\* C16: while the emergency monitor is between taking and releasing the
\* subscribers' lock (the callbacks run there) it does not own the queue lock,
\* and on_emcy is able to take it and push the next code.
C16_QueueLockFreeInFanOut ==
    (em_pc \in {"fanlock", "fan"}) =>
        /\ emcy_lock # "mon"
        /\ (Len(pushed) < MaxPush) => ENABLED EmcyArrives

\* a callback of the current fan-out has run, and codes pushed after the one
\* being delivered are already in the queue
C16_Witness ==
    /\ em_pc = "fan"
    /\ em_i >= 1
    /\ delivered # <<>>
    /\ delivered[Len(delivered)][4] = em_code
    /\ pushed[Len(pushed)] > em_code
    /\ CIRC_CNT(emcy.head, emcy.tail, emcy.sz) > 0
    /\ emcy_lock = "free"

\* the step is a push by on_emcy
IsPush == Len(pushed') = Len(pushed) + 1

\* C18: head and tail stay within [0, capacity), at most capacity codes are
\* unread, and a push into a full queue (no space left) moves tail by exactly
\* one, dropping only the oldest unread code, and writes the new code at head;
\* a push into a queue with space leaves tail alone.
C18_QueueInvariant ==
    /\ [](/\ emcy.head \in 0..(emcy.sz - 1)
          /\ emcy.tail \in 0..(emcy.sz - 1)
          /\ emcy.sz = EMCY_QUEUE_SZ
          /\ CIRC_CNT(emcy.head, emcy.tail, emcy.sz) <= emcy.sz)
    /\ [][IsPush =>
            LET full == CIRC_SPACE(emcy.head, emcy.tail, EMCY_QUEUE_SZ) = 0
                code == pushed'[Len(pushed')]
            IN  /\ emcy'.tail = IF full THEN (emcy.tail + 1) % EMCY_QUEUE_SZ
                                ELSE emcy.tail
                /\ emcy'.head = (emcy.head + 1) % EMCY_QUEUE_SZ
                /\ emcy'.queue = [emcy.queue EXCEPT ![emcy.head] = code]
                /\ evicted' = IF full THEN Append(evicted, emcy.queue[emcy.tail])
                              ELSE evicted
                /\ full => EmcyContents(emcy') =
                               Append(Tail(EmcyContents(emcy)), code)]_vars

\* a push into a full queue has happened and the indices have wrapped
C18_Witness ==
    /\ evicted # <<>>
    /\ emcy.head < emcy.tail
    /\ CIRC_SPACE(emcy.head, emcy.tail, EMCY_QUEUE_SZ) = 0
    /\ emcy.queue[Mask(emcy.head - 1, emcy.sz)] = pushed[Len(pushed)]

(***************************************************************************)
(* C19, C20: sw_wait_change when the value already differs, and with a     *)
(* non-positive timeout.                                                   *)
(***************************************************************************)
\* the caller has the lock and finds the stored statusword different from
\* its own value
FindsChange(t) == w_pc[t] = "started" /\ sw_value # w_sw[t]

\* C19: a caller that finds the stored statusword already different from its
\* value does not block on the change condition: it returns in that step,
\* with success and with its value set to the stored statusword.
C19_ImmediateReturn ==
    [][\A t \in Waiters :
         (FindsChange(t) /\ w_pc'[t] # w_pc[t])
            => /\ w_pc'[t] = "returned"
               /\ ~w_blk'[t]
               /\ w_sw'[t] = sw_value
               /\ w_ret'[t] = IL_OK]_vars

\* what the code does in that case: it returns at once with its value set,
\* and with success unless the timeout is positive and either the second
\* reading of the clock fails or the time between the two readings uses up
\* the timeout
C19_ImmediateReturnOrError ==
    [][\A t \in Waiters :
         (FindsChange(t) /\ w_pc'[t] # w_pc[t])
            => /\ w_pc'[t] = "returned"
               /\ ~w_blk'[t]
               /\ w_sw'[t] = sw_value
               /\ w_ret'[t] \in {IL_OK, IL_EFAIL, IL_ETIMEDOUT}
               /\ (w_to[t] <= 0) => w_ret'[t] = IL_OK
               /\ (w_ret'[t] = IL_ETIMEDOUT)
                     => (now - w_start[t] >= w_to[t] /\ w_to'[t] <= 0)]_vars

\* the caller found the change, did not block, and was told the wait timed out
C19_TimedOutWitness ==
    \E t \in Waiters :
        /\ w_pc[t] = "returned"
        /\ ~w_blk[t]
        /\ w_sw[t] # w_in[t].sw
        /\ w_ret[t] = IL_ETIMEDOUT

\* C20: with a non-positive timeout sw_wait_change waits for as long as it
\* takes: a blocked caller leaves the wait only on a broadcast of sw_update or
\* on a failure of the wait, never on a timeout; the clock is not read, the
\* timeout error is never returned and the timeout argument is left as given.
C20_NonPositiveWaitsForever ==
    /\ [](\A t \in Waiters :
            (w_pc[t] # "idle" /\ w_in[t].to <= 0)
               => /\ w_to[t] = w_in[t].to
                  /\ w_start[t] = 0
                  /\ w_r[t] # OSAL_ETIMEDOUT
                  /\ (w_pc[t] = "returned")
                        => /\ w_ret[t] # IL_ETIMEDOUT
                           /\ (w_ret[t] = IL_EFAIL) => w_blk[t])
    /\ [][\A t \in Waiters :
            (w_pc[t] = "blocked" /\ w_in[t].to <= 0 /\ w_pc'[t] # "blocked")
               => \/ sw_ev'.op = "sw_update" /\ sw_ev'.bcast
                  \/ w_r'[t] = OSAL_EFAIL]_vars

\* a caller with a non-positive timeout blocked, was woken by a change and
\* returned
C20_Witness ==
    \E t \in Waiters :
        /\ w_pc[t] = "returned"
        /\ w_in[t].to <= 0
        /\ w_blk[t]
        /\ w_upd[t]
        /\ w_ret[t] = IL_OK
        /\ w_sw[t] # w_in[t].sw

(***************************************************************************)
(* Typed register access: the values, the byte order fix-up, the loopback  *)
(* transport, and the raw and scaled reads and writes.  A value of a       *)
(* native type is the sequence of its bytes in the host's memory, lowest   *)
(* byte first; a double is the integer number of its halves.               *)
(***************************************************************************)
\* the nine data types the raw and scaled accessors handle
NativeDTypes == {"u8", "s8", "u16", "s16", "u32", "s32", "u64", "s64", "float"}

\* the data type of string registers, which the dictionary also knows
IL_REG_DTYPE_STR == "str"

\* sizeof(*buf), sizeof(val_) of the accessor of each type
SizeOf(d) ==
    CASE d \in {"u8", "s8"} -> 1
      [] d \in {"u16", "s16"} -> 2
      [] d \in {"u32", "s32", "float"} -> 4
      [] OTHER -> 8

\* a plausible slip: the bytes are rotated, not reversed
Swap_Rotate(b) == [i \in 1..Len(b) |-> b[(i % Len(b)) + 1]]

\* __swap_16, __swap_32, __swap_64, __swap_float: the bytes are reversed
Swap(b) == Reverse(b)

\* the fix-up of the accessor of type d: none for the single-byte types
FixUp(d, b) == IF d \in {"u8", "s8"} THEN b ELSE Swap(b)

\* the bytes of the integer n in type d (two's complement)
Encode(d, n) ==
    [k \in 1..SizeOf(d) |->
        IF k <= 4 THEN (n \div (256 ^ (k - 1))) % 256
        ELSE IF n < 0 THEN 255 ELSE 0]

\* the bytes of the float whose value is h halves, for the floats followed
FloatBytes ==
    [h \in {0, 5, 10, 20, -6, -3} |->
        CASE h = 0 -> <<0, 0, 0, 0>>
          [] h = 5 -> <<0, 0, 32, 64>>
          [] h = 10 -> <<0, 0, 160, 64>>
          [] h = 20 -> <<0, 0, 32, 65>>
          [] h = -6 -> <<0, 0, 64, 192>>
          [] OTHER -> <<0, 0, 192, 191>>]

\* a number the model follows, and one it does not (too large for the
\* arithmetic here, or a float outside FloatBytes)
Num(n) == <<n>>
Big == <<>>

\* the integer whose bytes in type d are b
Decode(d, b) ==
    LET low == b[1] + (IF Len(b) >= 2 THEN 256 * b[2] ELSE 0)
                    + (IF Len(b) >= 4
                       THEN 65536 * b[3] + 16777216 * (b[4] % 128) ELSE 0)
        neg4 == Len(b) >= 4 /\ b[4] >= 128
        hi0 == \A k \in 5..Len(b) : b[k] = 0
        hi255 == \A k \in 5..Len(b) : b[k] = 255
    IN  CASE d = "u8" -> Num(low)
          [] d = "s8" -> Num(IF low >= 128 THEN low - 256 ELSE low)
          [] d = "u16" -> Num(low)
          [] d = "s16" -> Num(IF low >= 32768 THEN low - 65536 ELSE low)
          [] d \in {"u32", "u64"} ->
                IF ~neg4 /\ hi0 THEN Num(low) ELSE Big
          [] d \in {"s32", "s64"} ->
                IF ~neg4 /\ hi0 THEN Num(low)
                ELSE IF neg4 /\ hi255
                THEN Num((low - 1073741824) - 1073741824)
                ELSE Big
          [] OTHER -> Big

\* the number of halves of the float whose bytes are b
DecodeFloat(b) ==
    IF \E h \in DOMAIN FloatBytes : FloatBytes[h] = b
    THEN Num(CHOOSE h \in DOMAIN FloatBytes : FloatBytes[h] = b)
    ELSE Big

\* the spacing of the floats around the magnitude a (24 bits of mantissa)
RECURSIVE Ulp(_)
Ulp(a) == IF a < 16777216 THEN 1 ELSE 2 * Ulp(a \div 2)

\* a plausible slip that is none: the conversion keeps every bit
ToFloat_Exact(n) == n

\* (float)n for an integer n: the nearest float, ties to even
ToFloat(n) ==
    LET a == IF n < 0 THEN -n ELSE n
        q == Ulp(a)
        lo == (a \div q) * q
        rem == a - lo
        up == \/ 2 * rem > q
              \/ 2 * rem = q /\ (lo \div q) % 2 = 1
        r == IF up THEN lo + q ELSE lo
    IN  IF n < 0 THEN -r ELSE r

\* the largest magnitude the scaled read is followed for
MaxMagnitude == 67108864

\* buf_ = (float)native (integers) or (double)native (float), in halves
Widen(d, b) ==
    IF d = "float" THEN DecodeFloat(b)
    ELSE LET n == Decode(d, b)
         IN  IF n = Big THEN Big
             ELSE IF n[1] > MaxMagnitude \/ n[1] < -MaxMagnitude THEN Big
             ELSE Num(2 * ToFloat(n[1]))

\* the representable integers of type d that the model can tell apart
InRangeOf(d, t) ==
    CASE d = "u8" -> t \in 0..255
      [] d = "s8" -> t \in (-128)..127
      [] d = "u16" -> t \in 0..65535
      [] d = "s16" -> t \in (-32768)..32767
      [] d \in {"u32", "u64"} -> t >= 0
      [] OTHER -> TRUE

\* the integers the callers write and the device holds, per type
NativeInts(d) ==
    CASE d = "u8" -> {255}
      [] d = "s8" -> {-2}
      [] d = "u16" -> {258}
      [] d = "s16" -> {-2}
      [] d \in {"u32", "u64"} -> {16777219}
      [] d \in {"s32", "s64"} -> {-2}
      [] OTHER -> {}

\* the values the callers of the raw writes pass
RawVals(d) ==
    IF d = "float" THEN {FloatBytes[5]}
    ELSE {Encode(d, n) : n \in NativeInts(d)}

\* val_ truncated toward zero, for val_ of h halves
Trunc(h) == IF h >= 0 THEN h \div 2 ELSE -((-h) \div 2)

\* (uint8_t)val_ ... (float)val_: the values the cast can give; the cast of a
\* value the integer type cannot hold is undefined, and gives any value
Narrow(d, h) ==
    IF d = "float" THEN {FloatBytes[h]}
    ELSE IF InRangeOf(d, Trunc(h)) THEN {Encode(d, Trunc(h))}
    ELSE {Encode(d, n) : n \in NativeInts(d) \cup {0}}

\* the registers the callers pass: a read-write one of every native type
\* and a string register; the dictionary has the read-only and write-only ones
RegArgs ==
    {[dtype |-> d, access |-> "RW", address |-> 1] : d \in NativeDTypes}
      \cup {[dtype |-> IL_REG_DTYPE_STR, access |-> "WO", address |-> 1]}

\* the argument id == NULL
NoId == "none"

\* the register and identifier arguments: a register, or NULL and an id
RegIdArgs ==
    {<<reg, NoId>> : reg \in RegArgs} \cup {<<NoReg, id>> : id \in Ids}

\* the types requested from the raw accessors for the arguments ri: the
\* type of the register where there is one to tell, u16, for a u16
\* register s16 (same width, other signedness), and float for the
\* dictionary's float register
ReqDTypes(ri) ==
    {"u16"} \cup ({ri[1].dtype} \cap NativeDTypes)
            \cup (IF ri[1].dtype = "u16" \/ ri[2] \in {"id_rw", "id_wo"}
                  THEN {"s16"} ELSE {})
            \cup (IF ri[2] = "id_ro" THEN {"float"} ELSE {})

\* il_net__read on the loopback transport: the bytes last written, if they
\* are size bytes and the transport does not fail
NetRead(w, size, net_ok) ==
    IF net_ok /\ Len(w) = size THEN [r |-> IL_OK, buf |-> w]
    ELSE [r |-> IL_ENET, buf |-> <<>>]

\* il_servo_base__raw_read_<d>(servo, reg, id, buf): out is *buf after the
\* call (empty: left as it was)
il_servo_base__raw_read(dict, reg_pdef, id, d, w, net_ok) ==
    LET res == raw_read(dict, reg_pdef, id, d)
        rd == NetRead(w, SizeOf(d), net_ok)
    IN  IF res.net = NoNet THEN [ret |-> res.ret, net |-> NoNet, out |-> <<>>]
        ELSE IF rd.r # IL_OK THEN [ret |-> rd.r, net |-> res.net, out |-> <<>>]
        ELSE [ret |-> IL_OK, net |-> res.net, out |-> FixUp(d, rd.buf)]

\* il_servo_base__raw_write_<d>(servo, reg, id, val, confirm): data is what
\* il_net__write is given, wire what the loopback holds afterwards
il_servo_base__raw_write(dict, reg_pdef, id, d, val, confirm, w, net_ok) ==
    LET res == raw_write(dict, reg_pdef, id, d, confirm)
        val_ == FixUp(d, val)
    IN  IF res.net = NoNet
        THEN [ret |-> res.ret, net |-> NoNet, data |-> <<>>, wire |-> w]
        ELSE [ret |-> IF net_ok THEN IL_OK ELSE IL_ENET, net |-> res.net,
              data |-> val_, wire |-> IF net_ok THEN val_ ELSE w]

\* a plausible slip: a failed raw read is reported as a general failure and
\* the output is written all the same
il_servo_base__read_Masked(dict, reg_pdef, id, factor, w, net_ok) ==
    LET g == get_reg(dict, reg_pdef, id)
        rr == il_servo_base__raw_read(dict, g.reg, NoId, g.reg.dtype, w, net_ok)
        buf_ == Widen(g.reg.dtype, rr.out)
    IN  IF g.r # IL_OK THEN [ret |-> g.r, net |-> NoNet, out |-> <<>>]
        ELSE IF g.reg.dtype \notin NativeDTypes
        THEN [ret |-> IL_EINVAL, net |-> NoNet, out |-> <<>>]
        ELSE IF rr.ret # IL_OK THEN [ret |-> IL_EFAIL, net |-> rr.net, out |-> Num(0)]
        ELSE [ret |-> IL_OK, net |-> rr.net,
              out |-> IF buf_ = Big THEN Big ELSE Num(buf_[1] * factor)]

\* il_servo_base__read(servo, reg, id, buf): out is *buf in halves
il_servo_base__read(dict, reg_pdef, id, factor, w, net_ok) ==
    LET g == get_reg(dict, reg_pdef, id)
        rr == il_servo_base__raw_read(dict, g.reg, NoId, g.reg.dtype, w, net_ok)
        buf_ == Widen(g.reg.dtype, rr.out)
    IN  IF g.r # IL_OK THEN [ret |-> g.r, net |-> NoNet, out |-> <<>>]
        ELSE IF g.reg.dtype \notin NativeDTypes
        THEN [ret |-> IL_EINVAL, net |-> NoNet, out |-> <<>>]
        ELSE IF rr.ret # IL_OK THEN [ret |-> rr.ret, net |-> rr.net, out |-> <<>>]
        ELSE [ret |-> IL_OK, net |-> rr.net,
              out |-> IF buf_ = Big THEN Big ELSE Num(buf_[1] * factor)]

\* il_servo_base__write(servo, reg, id, val, confirm) for the value nat that
\* the narrowing cast gave
il_servo_base__write(dict, reg_pdef, id, nat, confirm, w, net_ok) ==
    LET g == get_reg(dict, reg_pdef, id)
    IN  IF g.r # IL_OK
        THEN [ret |-> g.r, net |-> NoNet, data |-> <<>>, wire |-> w]
        ELSE IF g.reg.dtype \notin NativeDTypes
        THEN [ret |-> IL_EINVAL, net |-> NoNet, data |-> <<>>, wire |-> w]
        ELSE il_servo_base__raw_write(dict, g.reg, NoId, g.reg.dtype, nat,
                                      confirm, w, net_ok)

\* the scaled values the callers write, and the unit factors in force
ScaledVals == {10, -3}
Factors == {1, 2}

\* what a register access leaves alone
outsideAcc == <<emcyVars, regVars, swVars, callVars, lifeVars, smVars, io,
                dictVars>>

\* the outcomes of the transport that matter: it can fail only where the
\* access reaches it
NetOks(res) == IF res.net = NoNet THEN {TRUE} ELSE BOOLEAN

\* acc keeps the value written only of a write that succeeded, and the
\* confirm flag and the factor only of an access that reached the transport
\* a call of one of the nine raw reads
RawRead ==
    /\ \E ri \in RegIdArgs :
          \E d \in ReqDTypes(ri) :
             \E net_ok \in NetOks(raw_read(servo_dict, ri[1], ri[2], d)) :
                LET res == il_servo_base__raw_read(servo_dict, ri[1], ri[2], d,
                                                   wire, net_ok)
                IN  acc' = [op |-> "raw_read",
                            reg |-> get_reg(servo_dict, ri[1], ri[2]),
                            dtype |-> d, ret |-> res.ret, net |-> res.net,
                            out |-> res.out]
    /\ UNCHANGED <<wire, outsideAcc>>

\* a call of one of the nine raw writes
RawWrite ==
    /\ \E ri \in RegIdArgs, confirm \in {0, 1} :
          \E d \in ReqDTypes(ri) :
             \E val \in RawVals(d),
                net_ok \in NetOks(raw_write(servo_dict, ri[1], ri[2], d, confirm)) :
                LET res == il_servo_base__raw_write(servo_dict, ri[1], ri[2], d,
                                                    val, confirm, wire, net_ok)
                IN  /\ acc' = [op |-> "raw_write",
                               reg |-> get_reg(servo_dict, ri[1], ri[2]),
                               dtype |-> d,
                               val |-> IF res.ret = IL_OK THEN val ELSE <<>>,
                               confirm |-> IF res.net # NoNet THEN confirm
                                           ELSE 0,
                               ret |-> res.ret, net |-> res.net,
                               data |-> IF res.ret = IL_OK THEN res.data
                                        ELSE <<>>]
                    /\ wire' = res.wire
    /\ UNCHANGED outsideAcc

\* a call of the scaled read
ScaledRead ==
    /\ \E ri \in RegIdArgs, factor \in Factors :
          \E net_ok \in NetOks(il_servo_base__read(servo_dict, ri[1], ri[2],
                                                   factor, wire, TRUE)) :
             LET res == il_servo_base__read(servo_dict, ri[1], ri[2], factor,
                                            wire, net_ok)
             IN  acc' = [op |-> "read",
                         reg |-> get_reg(servo_dict, ri[1], ri[2]),
                         factor |-> IF res.ret = IL_OK THEN factor ELSE 1,
                         ret |-> res.ret, net |-> res.net, out |-> res.out]
    /\ UNCHANGED <<wire, outsideAcc>>

\* a call of the scaled write, which its callers ask to confirm:
\* val_ = val / factor, in halves
ScaledWrite ==
    /\ \E ri \in RegIdArgs, confirm \in {1}, factor \in Factors,
          val \in ScaledVals :
          LET g == get_reg(servo_dict, ri[1], ri[2])
              val_ == (2 * val) \div factor
              nats == IF g.r = IL_OK /\ g.reg.dtype \in NativeDTypes
                      THEN Narrow(g.reg.dtype, val_) ELSE {<<>>}
          IN  \E nat \in nats :
                 \E net_ok \in NetOks(il_servo_base__write(servo_dict, ri[1],
                                         ri[2], nat, confirm, wire, TRUE)) :
                    LET res == il_servo_base__write(servo_dict, ri[1], ri[2],
                                                    nat, confirm, wire, net_ok)
                    IN  /\ acc' = [op |-> "write", reg |-> g,
                                   val |-> IF res.ret = IL_OK THEN val ELSE 0,
                                   factor |-> IF res.ret = IL_OK THEN factor
                                              ELSE 1,
                                   confirm |-> IF res.net # NoNet THEN confirm
                                               ELSE 0,
                                   ret |-> res.ret, net |-> res.net,
                                   data |-> IF res.ret = IL_OK THEN res.data
                                            ELSE <<>>]
                        /\ wire' = res.wire
    /\ UNCHANGED outsideAcc

\* what a dictionary load leaves alone
outsideDict == <<emcyVars, regVars, swVars, callVars, smVars, io, wire, dictVars,
                 init_pc, init_step, init_dict, init_r, state_stop, task,
                 acq_log, rel_log, init_failed, deinitVars>>

\* a plausible slip: the load goes ahead over a loaded dictionary
DictAfterLoad_Replace(had, create_ok) == create_ok

\* servo->dict after the call: kept if there was one, else il_dict_create's
\* result (a dictionary or NULL)
DictAfterLoad(had, create_ok) == had \/ create_ok

\* il_servo_base__dict_load(servo, dict)
il_servo_base__dict_load(create_ok) ==
    /\ acc' = [op |-> "dict_load", had |-> servo_dict,
               ret |-> IF servo_dict THEN IL_EALREADY
                       ELSE IF create_ok THEN IL_OK ELSE IL_EFAIL]
    /\ servo_dict' = DictAfterLoad(servo_dict, create_ok)
    /\ held' = IF servo_dict' THEN held \cup {"dict"} ELSE held \ {"dict"}
    /\ UNCHANGED outsideDict

\* il_servo_dict_load(servo, dict): the same code on the public entry point
il_servo_dict_load(create_ok) ==
    /\ acc' = [op |-> "dict_load", had |-> servo_dict,
               ret |-> IF servo_dict THEN IL_EALREADY
                       ELSE IF create_ok THEN IL_OK ELSE IL_EFAIL]
    /\ servo_dict' = DictAfterLoad(servo_dict, create_ok)
    /\ held' = IF servo_dict' THEN held \cup {"dict"} ELSE held \ {"dict"}
    /\ UNCHANGED outsideDict

DictLoad ==
    \E create_ok \in BOOLEAN :
       \/ il_servo_base__dict_load(create_ok)
       \/ il_servo_dict_load(create_ok)

(***************************************************************************)
(* SpecReg: register accesses and dictionary loads on a constructed servo  *)
(* that was created without a dictionary.                                  *)
(***************************************************************************)
InitReg ==
    /\ InitEmcyVars
    /\ InitRegVars
    /\ InitSwVars
    /\ InitCallVars
    /\ InitSmVars
    /\ io = [op |-> "none", ret |-> IL_OK, net |-> NoNet, held |-> {}]
    /\ acc = [op |-> "none"]
    /\ wire = <<>>
    /\ InitDictVars
    /\ init_pc = "returned"
    /\ init_step = 0
    /\ init_dict = FALSE
    /\ init_r = IL_OK
    /\ servo_dict = FALSE
    /\ state_stop = FALSE
    /\ task = [r \in Regs |-> "running"]
    /\ held = Resources \ {"dict"}
    /\ acq_log = SelectSeq(InitOrder, LAMBDA res : res # "dict")
    /\ rel_log = <<>>
    /\ init_failed = "none"
    /\ deinit_pc = "idle"
    /\ deinit_step = 0

NextReg ==
    \/ RawRead
    \/ RawWrite
    \/ ScaledRead
    \/ ScaledWrite
    \/ DictLoad

SpecReg == InitReg /\ [][NextReg]_vars

(***************************************************************************)
(* C21 .. C26, C28: access and type enforcement, confirmation, round trip, *)
(* unit scaling, lookup errors and dictionary loading.                     *)
(***************************************************************************)
\* the accesses whose register was resolved
Resolved == acc.op \in {"raw_read", "raw_write", "read", "write"}
               /\ acc.reg.r = IL_OK

\* the access is a read of a write-only or a write of a read-only register
Forbidden ==
    /\ Resolved
    /\ \/ acc.op \in {"raw_read", "read"} /\ acc.reg.reg.access = "WO"
       \/ acc.op \in {"raw_write", "write"} /\ acc.reg.reg.access = "RO"

\* the type asked for is the descriptor's (raw), or the descriptor's type is
\* one the scaled accessors dispatch on
WellTyped ==
    IF acc.op \in {"raw_read", "raw_write"}
    THEN acc.dtype = acc.reg.reg.dtype
    ELSE acc.reg.reg.dtype \in NativeDTypes

\* C21: a raw or scaled read of a write-only register and a raw or scaled
\* write of a read-only register fail with IL_EACCESS, and the transport is
\* not called.
C21_AccessEnforced ==
    Forbidden => (acc.ret = IL_EACCESS /\ acc.net = NoNet)

\* C21 as the code has it: the type is verified first, so the access error
\* is what a well-typed forbidden access gets, an ill-typed one gets
\* IL_EINVAL; the transport is called in neither case.
C21_AccessEnforcedWhenTyped ==
    Forbidden =>
        /\ acc.net = NoNet
        /\ acc.ret = IF WellTyped THEN IL_EACCESS ELSE IL_EINVAL

\* a scaled read of the dictionary's write-only register was refused
C21_Witness ==
    /\ acc.op = "read"
    /\ Forbidden
    /\ acc.ret = IL_EACCESS
    /\ acc.net = NoNet

\* C22: a raw read or write that asks for a type other than the resolved
\* descriptor's fails with IL_EINVAL; the transport is not called and no
\* value is converted: nothing is transmitted and nothing is given back.
C22_TypeMismatchRejected ==
    (acc.op \in {"raw_read", "raw_write"} /\ Resolved /\ ~WellTyped)
       => /\ acc.ret = IL_EINVAL
          /\ acc.net = NoNet
          /\ acc.op = "raw_read" => acc.out = <<>>
          /\ acc.op = "raw_write" => acc.data = <<>>

\* a writable u16 register was written as s16 (same width) and refused
C22_Witness ==
    /\ acc.op = "raw_write"
    /\ Resolved
    /\ acc.reg.reg.dtype = "u16"
    /\ acc.reg.reg.access = "RW"
    /\ acc.dtype = "s16"
    /\ acc.ret = IL_EINVAL

\* C23: a write that reaches the transport passes confirmed = 0 for a
\* write-only descriptor whatever the caller asked, and the caller's flag
\* unchanged for a read-write descriptor.
C23_WriteOnlyNeverConfirms ==
    (acc.op \in {"raw_write", "write"} /\ acc.net # NoNet)
       => /\ acc.net.fn = "il_net__write"
          /\ acc.net.confirmed = IF acc.reg.reg.access = "WO" THEN 0
                                 ELSE acc.confirm

\* a write-only register was written with confirm = 1
C23_Witness ==
    /\ acc.op = "raw_write"
    /\ acc.net # NoNet
    /\ acc.reg.reg.access = "WO"
    /\ acc.confirm = 1
    /\ acc.net.confirmed = 0

\* C24: a raw read that follows a successful raw write of the same type on
\* the loopback transport gives back the value written, for each of the nine
\* types; the single-byte types go on the wire as they are.
C24_RoundTrip ==
    /\ [][(/\ acc.op = "raw_write" /\ acc.ret = IL_OK
           /\ acc'.op = "raw_read" /\ acc'.ret = IL_OK
           /\ acc'.dtype = acc.dtype)
            => acc'.out = acc.val]_vars
    /\ []((acc.op = "raw_write" /\ acc.ret = IL_OK
             /\ acc.dtype \in {"u8", "s8"}) => acc.data = acc.val)

\* a u64 went out with its bytes reversed and was read back as written
C24_Witness ==
    /\ acc.op = "raw_read"
    /\ acc.ret = IL_OK
    /\ acc.dtype = "u64"
    /\ acc.out = Encode("u64", 16777219)
    /\ wire = Reverse(acc.out)
    /\ wire # acc.out

\* the native value of type d the wire holds, as the accessor of d sees it
NativeOnWire(d) ==
    IF d = "float" THEN DecodeFloat(FixUp(d, wire))
    ELSE LET n == Decode(d, FixUp(d, wire))
         IN  IF n = Big THEN Big
             ELSE IF n[1] > MaxMagnitude \/ n[1] < -MaxMagnitude THEN Big
             ELSE Num(2 * n[1])

\* C25: a scaled write transmits the caller's value divided by the unit
\* factor, narrowed to the native type (where the type can hold it), and a
\* scaled read returns the native value multiplied by the factor.
C25_UnitScaling ==
    /\ (acc.op = "write" /\ acc.ret = IL_OK)
          => LET d == acc.reg.reg.dtype
                 h == (2 * acc.val) \div acc.factor
             IN  (d = "float" \/ InRangeOf(d, Trunc(h)))
                    => acc.data = FixUp(d, IF d = "float" THEN FloatBytes[h]
                                           ELSE Encode(d, Trunc(h)))
    /\ (acc.op = "read" /\ acc.ret = IL_OK)
          => LET n == NativeOnWire(acc.reg.reg.dtype)
             IN  (n # Big /\ acc.out # Big) => acc.out = Num(n[1] * acc.factor)

\* the claim's example: 10.0 written with factor 2 transmitted native 5
C25_ExampleWitness ==
    /\ acc.op = "write"
    /\ acc.ret = IL_OK
    /\ acc.val = 10
    /\ acc.factor = 2
    /\ acc.reg.reg.dtype = "u16"
    /\ acc.data = FixUp("u16", Encode("u16", 5))

\* the error get_reg returns when no dictionary is loaded
NoDictError == get_reg(FALSE, NoReg, NoId).r

\* C26: an access by an identifier the loaded dictionary does not know fails
\* with an error value other than the one for "no dictionary loaded".
C26_DistinctLookupErrors ==
    (/\ acc.op \in {"raw_read", "raw_write", "read", "write"}
     /\ acc.reg.r # IL_OK
     /\ servo_dict)
       => acc.ret # NoDictError

\* C28: a load into a servo that has a dictionary fails with IL_EALREADY and
\* the servo keeps its dictionary; a load that fails on a servo without one
\* leaves it without one; a load that succeeds gives it one.
C28_DictLoad ==
    [][(acc'.op = "dict_load" /\ acc' # acc)
         => /\ servo_dict => (acc'.ret = IL_EALREADY /\ servo_dict')
            /\ (~servo_dict /\ acc'.ret # IL_OK)
                  => (acc'.ret = IL_EFAIL /\ ~servo_dict')
            /\ (acc'.ret = IL_OK) => (~servo_dict /\ servo_dict')]_vars

\* a second load was refused and the dictionary is still there
C28_Witness ==
    /\ acc.op = "dict_load"
    /\ acc.had
    /\ acc.ret = IL_EALREADY
    /\ servo_dict
    /\ "dict" \in held

(***************************************************************************)
(* C27: a failed growth in subscribe.                                      *)
(***************************************************************************)
\* C27: subscribe fails only with IL_ENOMEM, which it returns when the
\* growth allocation fails; the slots and the capacity of the registry are
\* then as they were, and the registry lock is free again.
C27_AllocFailure ==
    /\ [](call.op = "subscribe" => call.err \in {IL_OK, IL_ENOMEM})
    /\ [][(call'.op = "subscribe" /\ call'.err = IL_ENOMEM)
            => /\ subs' = subs
               /\ sz' = sz
               /\ lock'[call'.reg] = "free"]_vars

\* a subscribe on a registry without an empty slot failed to grow it
C27_Witness ==
    /\ call.op = "subscribe"
    /\ call.err = IL_ENOMEM
    /\ call.slot = sz[call.reg]
    /\ \A k \in 1..Len(subs[call.reg]) : subs[call.reg][k].cb # NULL
    /\ lock[call.reg] = "free"

(***************************************************************************)
(* C29: liveness of the emergency delivery.  The monitor task is scheduled *)
(* again and again, and its timed wait ends when EMCY_SUBS_TIMEOUT is over. *)
(***************************************************************************)
SpecEmcyLive == InitEmcy /\ [][NextEmcy]_vars /\ WF_vars(emcy_subs_monitor)

\* the k-th code pushed is out of the queue: taken by the monitor for its
\* subscribers, or evicted by a later push
Settled(k) ==
    /\ k <= Len(pushed)
    /\ pushed[k] \in Range(popped) \/ pushed[k] \in Range(evicted)

\* C29: while the monitor runs, the last code pushed is taken out of the
\* queue and fanned out without a further emergency having to arrive,
\* wherever the monitor was when the code was pushed.
C29_EmcyDelivered ==
    \A k \in 1..MaxPush :
        (Len(pushed) = k /\ ~em_stop)
           ~> (Settled(k) \/ Len(pushed) > k \/ em_stop)

\* a code was pushed while the monitor was not waiting, and the monitor has
\* since gone through a whole poll cycle without taking it
C29_StrandedWitness ==
    /\ Len(pushed) = 1
    /\ popped = <<>>
    /\ evicted = <<>>
    /\ em_pc = "unlock"
    /\ em_r = OSAL_ETIMEDOUT
    /\ ~em_stop

(***************************************************************************)
(* C30: delivery of statusword changes by the state monitor.               *)
(***************************************************************************)
\* C30: no change of the statusword that the state monitor takes into its
\* local copy sw is dropped: the step of the monitor in which sw_wait_change
\* overwrites the local copy is followed by the decode and the fan-out of
\* that value, never by a return to the head of the loop.
C30_NoChangeDropped ==
    [][(sm_pc = "wait" /\ sm_sw' # sm_sw) => sm_pc' = "fanlock"]_vars

\* the monitor is back at the head of its loop holding the changed stored
\* value in its local copy, and no subscriber has been invoked
C30_DroppedWitness ==
    /\ sm_pc = "loop"
    /\ sw_value # 0
    /\ sm_sw = sw_value
    /\ sm_calls = <<>>
    /\ lock["state"] = "free"
    /\ ~state_stop

(***************************************************************************)
(* C31, C32: the caller's value at the return of sw_wait_change.           *)
(***************************************************************************)
\* C31: whenever sw_wait_change has returned an error (time-out or failure)
\* the caller's value is the one it passed in.
C31_ErrorLeavesValue ==
    \A t \in Waiters :
        (w_pc[t] = "returned" /\ w_ret[t] # IL_OK) => w_sw[t] = w_in[t].sw

\* C32: whenever sw_wait_change has returned success the caller's value
\* differs from the one it passed in, whatever sw_update calls happened
\* during the call.
C32_SuccessMeansChange ==
    \A t \in Waiters :
        (w_pc[t] = "returned" /\ w_ret[t] = IL_OK) => w_sw[t] # w_in[t].sw

\* the caller blocked, was woken by a change, and returned success with the
\* value it had passed in
C32_ChangedBackWitness ==
    \E t \in Waiters :
        /\ w_pc[t] = "returned"
        /\ w_blk[t]
        /\ w_upd[t]
        /\ w_ret[t] = IL_OK
        /\ w_sw[t] = w_in[t].sw

(***************************************************************************)
(* C33, C34: the slots of a registry, and unsubscribe of a negative slot.  *)
(***************************************************************************)
\* C33: in every reachable state each slot with an index below the capacity
\* of a registry is a slot of its allocation and is either empty (no
\* callback) or holds the callback and context some subscribe call passed;
\* in particular the slots added by a growth, other than the one assigned,
\* are empty.
C33_SlotInvariant ==
    \A r \in Regs :
        \A i \in 0..(sz[r] - 1) :
            /\ i < Alloc(r)
            /\ \/ SlotAt(r, i).cb = NULL
               \/ <<SlotAt(r, i).cb, SlotAt(r, i).ctx>> \in SubInputs

\* a slot of the allocation holds a callback no subscribe call stored
C33_GarbageWitness ==
    \E r \in Regs :
        \E i \in 0..(Alloc(r) - 1) :
            /\ i < sz[r]
            /\ SlotAt(r, i).cb = JUNK

\* C34: unsubscribe with a negative slot is treated as out of bounds: it
\* writes nothing, neither a slot of the registry nor memory outside it, and
\* it changes neither the slots nor the capacity of the registry.
C34_NegativeSlotRejected ==
    [][(call'.op = "unsubscribe" /\ call'.slot < 0)
         => /\ subs' = subs
            /\ sz' = sz
            /\ ~call'.oob]_vars

\* unsubscribe(-1) has returned after a store outside the allocation
C34_NegativeWriteWitness ==
    /\ call.op = "unsubscribe"
    /\ call.slot = -1
    /\ call.oob
    /\ lock[call.reg] = "free"

(***************************************************************************)
(* C35: unsubscribe against a fan-out of the state monitor.                *)
(***************************************************************************)
\* the invocations the step adds to the current fan-out
NewCalls ==
    IF Len(sm_calls') > Len(sm_calls)
    THEN {sm_calls'[n] : n \in (Len(sm_calls) + 1)..Len(sm_calls')}
    ELSE {}

\* C35: once unsubscribe has returned for a slot of the registry, the slot
\* stays without a callback and the monitor invokes nothing for that slot
\* again; every invocation the monitor makes for a slot is of the callback
\* and context the slot holds at that moment, and the slots do not change
\* while the monitor holds the registry lock for a fan-out.
C35_NoCallAfterUnsubscribe ==
    /\ [][\A k \in 0..(Alloc("state") - 1) :
            (SlotAt("state", k).cb = NULL)
               => /\ subs'["state"][k + 1].cb = NULL
                  /\ \A e \in NewCalls : e[1] # k]_vars
    /\ [][\A e \in NewCalls :
            e[1] < Alloc("state")
               => /\ e[2] # NULL
                  /\ subs'["state"][e[1] + 1] = [cb |-> e[2], ctx |-> e[3]]]_vars
    /\ [][lock["state"] = "mon" => subs' = subs]_vars

\* slot 0 of a full registry of two has been unsubscribed and a fan-out
\* has since run over the registry, invoking the subscriber of slot 1 only
C35_Witness ==
    /\ call.op = "unsubscribe"
    /\ call.slot = 0
    /\ sz["state"] = STATE_SUBS_SZ_DEF
    /\ SlotAt("state", 0) = EmptySlot
    /\ sm_pc = "loop"
    /\ sm_calls = <<<<1, "cb2", "ctx2", sm_sw>>>>

(***************************************************************************)
(* C36: each emergency code is fanned out at most once.                    *)
(***************************************************************************)
\* the elements of s are in strictly increasing order
Increasing(s) == \A i, j \in 1..Len(s) : i < j => s[i] < s[j]

\* C36: each code pushed by on_emcy is popped, and passed to each
\* subscriber, at most once and in the order of the pushes, and a code that
\* the overflow branch evicted is never popped; a code pushed while the
\* callbacks run is in the queue when the monitor takes the queue lock again,
\* and the monitor then goes back to the test of its drain loop and pops the
\* oldest queued code, without waiting on the condition in between.
C36_AtMostOnce ==
    /\ [](/\ Increasing(popped)
          /\ Range(popped) \cap Range(evicted) = {}
          /\ \A s \in OccupiedSlots("emcy") : Increasing(DeliveredTo(s)))
    /\ [][(em_pc = "relock" /\ em_pc' # em_pc) => em_pc' = "check"]_vars
    /\ [][(/\ em_pc = "check"
           /\ em_pc' # em_pc
           /\ Len(EmcyContents(emcy)) > 0)
            => /\ popped' = Append(popped, EmcyContents(emcy)[1])
               /\ em_code' = EmcyContents(emcy)[1]
               /\ em_pc' = "fanlock"]_vars

\* code 1 has been popped and passed to a subscriber, and code 2, pushed
\* after that pop, is in the queue as the monitor is about to take the queue
\* lock again
C36_Witness ==
    /\ em_pc = "relock"
    /\ popped = <<1>>
    /\ first_pop_at = 1
    /\ EmcyContents(emcy) = <<2>>
    /\ \E d \in Range(delivered) : d[4] = 1

(***************************************************************************)
(* C37: the order of the checks of raw_read and raw_write.                 *)
(***************************************************************************)
\* C37: a raw read or write resolves the descriptor, then verifies the data
\* type, then the access mode, then calls the transport, and returns the
\* error of the first step that fails: the lookup's error if the descriptor
\* is not resolved, else IL_EINVAL if the type differs (also when the access
\* is forbidden), else IL_EACCESS if the access is forbidden, else the
\* transport's result; the transport is called only if all three pass.
C37_ValidationOrder ==
    acc.op \in {"raw_read", "raw_write"}
       => IF acc.reg.r # IL_OK
          THEN acc.ret = acc.reg.r /\ acc.net = NoNet
          ELSE IF ~WellTyped
          THEN acc.ret = IL_EINVAL /\ acc.net = NoNet
          ELSE IF Forbidden
          THEN acc.ret = IL_EACCESS /\ acc.net = NoNet
          ELSE acc.net # NoNet /\ acc.ret \in {IL_OK, IL_ENET}

\* the dictionary's write-only u16 register was read as s16 and the call
\* failed with the invalid-argument error
C37_Witness ==
    /\ acc.op = "raw_read"
    /\ Forbidden
    /\ acc.reg.reg.dtype = "u16"
    /\ acc.dtype = "s16"
    /\ acc.ret = IL_EINVAL
    /\ acc.net = NoNet

(***************************************************************************)
(* C38: errors of the transport.                                           *)
(***************************************************************************)
\* the access is a raw or scaled read
IsRead == acc.op \in {"raw_read", "read"}

\* C38: an access that reaches the transport returns the transport's result
\* as it is: success or the transport's error, and the transport's error
\* whenever the transport cannot deliver a value of the register's size; a
\* read that fails for whatever reason gives the caller nothing: no bytes
\* with the byte order fixed up and no scaled value.
C38_TransportErrorPassedOn ==
    /\ (acc.op \in {"raw_read", "raw_write", "read", "write"}
          /\ acc.net # NoNet)
          => acc.ret \in {IL_OK, IL_ENET}
    /\ (IsRead /\ acc.net # NoNet
          /\ Len(wire) # SizeOf(acc.reg.reg.dtype))
          => acc.ret = IL_ENET
    /\ (IsRead /\ acc.ret # IL_OK) => acc.out = <<>>

\* a scaled read reached the transport, which held a value of the right
\* size and failed, and the call returned the transport's error
C38_Witness ==
    /\ acc.op = "read"
    /\ acc.net # NoNet
    /\ Len(wire) = SizeOf(acc.reg.reg.dtype)
    /\ acc.ret = IL_ENET
    /\ acc.out = <<>>

(***************************************************************************)
(* The dictionary file: the range of a register entry (parse_reg,          *)
(* parse_reg_range).  A bound of the range is the sequence of the bytes of *)
(* the member of the union that the register's type selects, lowest byte   *)
(* first; an attribute is the sequence of its characters.                  *)
(***************************************************************************)
\* the types with a case in the two switches on reg->dtype
IntDTypes == NativeDTypes \ {"float"}

\* the types get_dtype knows
DictDTypes == NativeDTypes \cup {IL_REG_DTYPE_STR}

\* the value of a digit, or -1 for a character that is none
DigitVal(c) ==
    CASE c = "0" -> 0 [] c = "1" -> 1 [] c = "2" -> 2 [] c = "3" -> 3
      [] c = "4" -> 4 [] c = "5" -> 5 [] c = "6" -> 6 [] c = "7" -> 7
      [] c = "8" -> 8 [] c = "9" -> 9 [] c = "a" -> 10 [] c = "f" -> 15
      [] OTHER -> -1

\* the number the leading digits of s denote in the base, after v
RECURSIVE Digits(_, _, _)
Digits(s, base, v) ==
    IF s = <<>> \/ DigitVal(s[1]) < 0 \/ DigitVal(s[1]) >= base THEN v
    ELSE Digits(Tail(s), base, v * base + DigitVal(s[1]))

\* strtol(s, NULL, 0), and strtoul / strtoull / strtoll up to the wrap that
\* the cast to the register's type undoes: an optional sign, then 0x and
\* hexadecimal digits, 0 and octal digits, or decimal digits
StrToL(s) ==
    LET neg == s # <<>> /\ s[1] = "-"
        body == IF neg THEN Tail(s) ELSE s
        hex == Len(body) >= 2 /\ body[1] = "0" /\ body[2] = "x"
        oct == ~hex /\ Len(body) >= 1 /\ body[1] = "0"
        v == IF hex THEN Digits(SubSeq(body, 3, Len(body)), 16, 0)
             ELSE IF oct THEN Digits(body, 8, 0)
             ELSE Digits(body, 10, 0)
    IN  IF neg THEN -v ELSE v

\* xmlGetProp found no such attribute
NoAttr == <<>>

\* the attributes the Range elements carry
AttrStrings(d) ==
    IF d = "float" THEN {<<"5">>, <<"-", "3">>}
    ELSE {<<"5">>, <<"-", "3">>, <<"0", "x", "1", "0">>}

\* the entry has no Range element
NoRange == [range |-> FALSE, min |-> NoAttr, max |-> NoAttr]

\* the register nodes of type d: without a Range element, or with one that
\* carries min, max, both or neither
RegNodes(d) ==
    {NoRange} \cup {[range |-> TRUE, min |-> a, max |-> b] :
                      a \in AttrStrings(d) \cup {NoAttr},
                      b \in AttrStrings(d) \cup {NoAttr}}

\* what the memory of a new entry of the hash table holds in a bound
RangeGarbage(d) ==
    {[min |-> [k \in 1..SizeOf(d) |-> g], max |-> [k \in 1..SizeOf(d) |-> g]] :
        g \in {0, 170}}

\* "assign default min/max": 0 / UINTn_MAX, INTn_MIN / INTn_MAX for the
\* eight integer types; "default: break" leaves the range as it was
DefaultRange(d, rng) ==
    LET n == SizeOf(d)
    IN  IF d \in {"u8", "u16", "u32", "u64"}
        THEN [min |-> [k \in 1..n |-> 0], max |-> [k \in 1..n |-> 255]]
        ELSE IF d \in {"s8", "s16", "s32", "s64"}
        THEN [min |-> [k \in 1..n |-> IF k = n THEN 128 ELSE 0],
              max |-> [k \in 1..n |-> IF k = n THEN 127 ELSE 255]]
        ELSE rng

\* a plausible slip: a Range element sets both bounds, a missing attribute
\* reading as 0
parse_reg_range_Both(d, node, rng) ==
    IF d \in IntDTypes
    THEN [min |-> Encode(d, StrToL(node.min)), max |-> Encode(d, StrToL(node.max))]
    ELSE rng

\* parse_reg_range(node, reg): each attribute that is present is converted
\* and cast to the register's type, for the eight integer types
parse_reg_range(d, node, rng) ==
    [min |-> IF node.min # NoAttr /\ d \in IntDTypes
             THEN Encode(d, StrToL(node.min)) ELSE rng.min,
     max |-> IF node.max # NoAttr /\ d \in IntDTypes
             THEN Encode(d, StrToL(node.max)) ELSE rng.max]

\* the range of the entry that parse_reg leaves for a node of type d: the
\* defaults, then parse_reg_props' call of parse_reg_range for a Range element
parse_reg(d, node, garbage) ==
    LET dflt == DefaultRange(d, garbage)
    IN  [dtype |-> d,
         range |-> IF node.range THEN parse_reg_range(d, node, dflt) ELSE dflt]

\* what the parsing of a register leaves alone
outsideParse == <<emcyVars, regVars, swVars, callVars, lifeVars, smVars,
                  ioVars, dc>>

\* a register node is parsed into a new entry of the registers' table
ParseReg ==
    /\ \E d \in DictDTypes :
          \E node \in RegNodes(d), garbage \in RangeGarbage(d) :
             parsed' = [op |-> "parse_reg", node |-> node,
                        reg |-> parse_reg(d, node, garbage)]
    /\ UNCHANGED outsideParse

InitRange ==
    /\ InitEmcyVars
    /\ InitRegVars
    /\ InitSwVars
    /\ InitCallVars
    /\ InitLifeVars
    /\ InitSmVars
    /\ InitIoVars
    /\ InitDictVars

NextRange == ParseReg

SpecRange == InitRange /\ [][NextRange]_vars

(***************************************************************************)
(* C39: the range of a parsed register.                                    *)
(***************************************************************************)
\* the number an attribute denotes
AttrNumber(a) ==
    CASE a = <<"5">> -> 5
      [] a = <<"-", "3">> -> -3
      [] OTHER -> 16

\* the bytes of the number n in the type d
ValueIn(d, n) == IF d = "float" THEN FloatBytes[2 * n] ELSE Encode(d, n)

\* the full range of the type d
FullRange(d) ==
    CASE d = "u8" -> [min |-> <<0>>, max |-> <<255>>]
      [] d = "s8" -> [min |-> <<128>>, max |-> <<127>>]
      [] d = "u16" -> [min |-> <<0, 0>>, max |-> <<255, 255>>]
      [] d = "s16" -> [min |-> <<0, 128>>, max |-> <<255, 127>>]
      [] d = "u32" -> [min |-> <<0, 0, 0, 0>>, max |-> <<255, 255, 255, 255>>]
      [] d = "s32" -> [min |-> <<0, 0, 0, 128>>, max |-> <<255, 255, 255, 127>>]
      [] d = "u64" -> [min |-> <<0, 0, 0, 0, 0, 0, 0, 0>>,
                       max |-> <<255, 255, 255, 255, 255, 255, 255, 255>>]
      [] d = "s64" -> [min |-> <<0, 0, 0, 0, 0, 0, 0, 128>>,
                       max |-> <<255, 255, 255, 255, 255, 255, 255, 127>>]
      [] OTHER -> [min |-> <<255, 255, 127, 255>>,
                   max |-> <<255, 255, 127, 127>>]

\* the bounds of the parsed entry are the full range of its type, each
\* replaced by the Range element's attribute where there is one
RangeAsDocumented ==
    LET d == parsed.reg.dtype
        node == parsed.node
    IN  /\ parsed.reg.range.min =
              IF node.min # NoAttr THEN ValueIn(d, AttrNumber(node.min))
              ELSE FullRange(d).min
        /\ parsed.reg.range.max =
              IF node.max # NoAttr THEN ValueIn(d, AttrNumber(node.max))
              ELSE FullRange(d).max

\* C39: for a parsed register of any of the nine numeric types, min and max
\* are the full range of the type, except that a min or max attribute of the
\* entry's Range element replaces the default of that bound only.
C39_RangeDefaults ==
    (parsed.op = "parse_reg" /\ parsed.reg.dtype \in NativeDTypes)
       => RangeAsDocumented

\* what holds of the code: the same, for the eight integer types
C39_IntegerRangeDefaults ==
    (parsed.op = "parse_reg" /\ parsed.reg.dtype \in IntDTypes)
       => RangeAsDocumented

\* a float register without a Range element whose bounds are not the full
\* range of a float
C39_FloatWitness ==
    /\ parsed.op = "parse_reg"
    /\ parsed.reg.dtype = "float"
    /\ ~parsed.node.range
    /\ parsed.reg.range # FullRange("float")

(***************************************************************************)
(* The dictionary file: il_dict_create with parse_cat and parse_reg, one   *)
(* step per resource it acquires, per node it parses and per label of its  *)
(* cleanup chain.  A resource is a pair <<name, index>>; a pointer field   *)
(* of an entry is "null", "live" (it points to a resource that exists),    *)
(* "dead" (the resource was released through it) or "uninit" (never        *)
(* written: it reads as NULL or as some other value).                      *)
(***************************************************************************)
\* the most category nodes and register nodes of a file
MaxCats == 2
MaxRegs == 2

\* the ways parse_cat can end for a node, given the entries present
CatKinds(entries) ==
    {"ok", "no_id", "labels_alloc", "scats_alloc", "labels_parse",
     "scats_parse"} \cup (IF entries # <<>> THEN {"dup"} ELSE {})

\* the ways parse_reg can end for a node, given the entries present
RegKinds(entries) ==
    {"ok_plain", "ok_full", "no_id", "no_address", "scat_no_cat",
     "bad_value", "labels_alloc", "labels_parse"}
      \cup (IF entries # <<>> THEN {"dup"} ELSE {})

\* the resource comes into existence
Acquire(st, res) == [st EXCEPT !.held = @ \cup {res}]

\* a release function is called on the resource
Release(st, res) ==
    IF res \in st.held THEN [st EXCEPT !.held = @ \ {res}]
    ELSE [st EXCEPT !.bad = @ \cup {<<res, "not held">>}]

\* "if (p) release(p)" through a pointer field; junk: an uninitialised
\* field reads as something other than NULL
ReleasePtr(st, ptr, res, junk) ==
    IF ptr \in {"live", "dead"} THEN Release(st, res)
    ELSE IF ptr = "uninit" /\ junk
    THEN [st EXCEPT !.bad = @ \cup {<<res, "uninit">>}]
    ELSE st

\* the resources acquired one after the other
RECURSIVE AcquireAll(_, _)
AcquireAll(st, rs) ==
    IF rs = <<>> THEN st ELSE AcquireAll(Acquire(st, rs[1]), Tail(rs))

\* parse_cat(node, dict) for the i-th node; scat: a Subcategories child with
\* one sub-category was parsed; r_junk: what the uninitialised r reads as
parse_cat(st, i, kind, scat, r_junk) ==
    LET key == <<"cat_key", i>>
        labels == <<"cat_labels", i>>
        h_scats == <<"cat_h_scats", i>>
        subs_ == IF scat THEN <<<<"scat_key", i>>, <<"scat_labels", i>>>>
                 ELSE <<>>
        entry(l, h, sc) ==
            [st EXCEPT !.cats = Append(@, [labels |-> l, h_scats |-> h,
                                           scat |-> sc])]
    IN  CASE kind = "ok" ->
               [st |-> AcquireAll(entry("live", "live", scat),
                                  <<key, labels, h_scats>> \o subs_),
                r |-> IL_OK]
          [] kind \in {"no_id", "dup"} ->
               \* the id, if any, is freed; the table is as it was
               [st |-> st, r |-> IL_EFAIL]
          [] kind = "labels_alloc" ->
               \* return IL_EFAIL with the new entry's value never written
               [st |-> Acquire(entry("uninit", "uninit", FALSE), key),
                r |-> IL_EFAIL]
          [] kind = "scats_alloc" ->
               \* goto cleanup_labels with r never assigned
               [st |-> Acquire(entry("null", "uninit", FALSE), key),
                r |-> r_junk]
          [] kind = "labels_parse" ->
               \* cleanup_h_scats: kh_destroy(h_scats) with its entries
               [st |-> AcquireAll(entry("null", "null", FALSE),
                                  <<key>> \o subs_),
                r |-> IL_EFAIL]
          [] OTHER ->
               \* parse_scats failed and freed the sub-categories it had
               [st |-> Acquire(entry("null", "null", FALSE), key),
                r |-> IL_EFAIL]

\* parse_reg(node, dict) for the j-th node
parse_reg_entry(st, j, kind) ==
    LET key == <<"reg_key", j>>
        cat_id == <<"reg_cat_id", j>>
        scat_id == <<"reg_scat_id", j>>
        labels == <<"reg_labels", j>>
        entry(c, s, l) ==
            [st EXCEPT !.regs = Append(@, [cat_id |-> c, scat_id |-> s,
                                           labels |-> l])]
    IN  CASE kind = "ok_plain" ->
               [st |-> Acquire(entry("null", "null", "null"), key),
                r |-> IL_OK]
          [] kind = "ok_full" ->
               [st |-> AcquireAll(entry("live", "live", "live"),
                                  <<key, cat_id, scat_id, labels>>),
                r |-> IL_OK]
          [] kind \in {"no_id", "dup"} -> [st |-> st, r |-> IL_EFAIL]
          [] kind \in {"no_address", "scat_no_cat"} ->
               \* labels and cat_id are NULL, scat_id was never written
               [st |-> Acquire(entry("null", "uninit", "null"), key),
                r |-> IL_EFAIL]
          [] kind \in {"bad_value", "labels_alloc"} ->
               [st |-> AcquireAll(entry("live", "live", "null"),
                                  <<key, cat_id, scat_id>>),
                r |-> IL_EFAIL]
          [] OTHER ->
               \* parse_reg_props: cleanup_labels destroys reg->labels and
               \* leaves the pointer
               [st |-> AcquireAll(entry("live", "live", "dead"),
                                  <<key, cat_id, scat_id>>),
                r |-> IL_EFAIL]

\* the loop under cleanup_h_regs_entries over the entries k..
RECURSIVE FreeRegs(_, _, _)
FreeRegs(st, k, junk) ==
    IF k > Len(st.regs) THEN st
    ELSE LET e == st.regs[k]
             s1 == ReleasePtr(st, e.cat_id, <<"reg_cat_id", k>>, junk)
             s2 == ReleasePtr(s1, e.scat_id, <<"reg_scat_id", k>>, junk)
             s3 == ReleasePtr(s2, e.labels, <<"reg_labels", k>>, junk)
         IN  FreeRegs(Release(s3, <<"reg_key", k>>), k + 1, junk)

\* the sub-categories of a category entry and its table
FreeScats(st, k, e, junk) ==
    IF e.h_scats = "live"
    THEN LET s1 == IF e.scat
                   THEN Release(Release(st, <<"scat_labels", k>>),
                                <<"scat_key", k>>)
                   ELSE st
         IN  Release(s1, <<"cat_h_scats", k>>)
    ELSE ReleasePtr(st, e.h_scats, <<"cat_h_scats", k>>, junk)

\* the loop under cleanup_h_cats_entries over the entries k..
RECURSIVE FreeCats(_, _, _)
FreeCats(st, k, junk) ==
    IF k > Len(st.cats) THEN st
    ELSE LET e == st.cats[k]
             s1 == ReleasePtr(st, e.labels, <<"cat_labels", k>>, junk)
             s2 == FreeScats(s1, k, e, junk)
         IN  FreeCats(Release(s2, <<"cat_key", k>>), k + 1, junk)

\* the resource acquired at each position before the parsing, and the
\* label jumped to if the acquisition fails
DictSteps ==
    [h_cats |-> [next |-> "h_regs", fail |-> "cleanup_dict"],
     h_regs |-> [next |-> "ctxt", fail |-> "cleanup_h_cats"],
     ctxt |-> [next |-> "doc", fail |-> "cleanup_h_regs"],
     doc |-> [next |-> "root", fail |-> "cleanup_ctxt"],
     xpath |-> [next |-> "obj_cats", fail |-> "cleanup_doc"],
     obj_cats |-> [next |-> "cats", fail |-> "cleanup_xpath"],
     obj_regs |-> [next |-> "regs", fail |-> "cleanup_h_cats"]]

\* the label control falls through to
DictCleanupNext(label) ==
    CASE label = "cleanup_h_regs_entries" -> "cleanup_h_cats_entries"
      [] label = "cleanup_h_cats_entries" -> "cleanup_xpath"
      [] label = "cleanup_xpath" -> "cleanup_doc"
      [] label = "cleanup_doc" -> "cleanup_ctxt"
      [] label = "cleanup_ctxt" -> "cleanup_h_regs"
      [] label = "cleanup_h_regs" -> "cleanup_h_cats"
      [] OTHER -> "cleanup_dict"

DictCleanupLabels ==
    {"cleanup_h_regs_entries", "cleanup_h_cats_entries", "cleanup_xpath",
     "cleanup_doc", "cleanup_ctxt", "cleanup_h_regs", "cleanup_h_cats"}

\* what il_dict_create leaves alone
outsideCreate == <<emcyVars, regVars, swVars, callVars, lifeVars, smVars,
                   ioVars, parsed>>

\* il_dict_create(dict_f) is called: dict = malloc(sizeof(*dict))
DictCall ==
    /\ dc.pc \in {"idle", "returned"}
    /\ \E ok \in BOOLEAN :
          dc' = [pc |-> IF ok THEN "h_cats" ELSE "returned",
                 r |-> IL_OK,
                 held |-> IF ok THEN {<<"dict", 0>>} ELSE {},
                 bad |-> {}, cats |-> <<>>, regs |-> <<>>,
                 n |-> 0, failed |-> ~ok,
                 ret |-> IF ok THEN "none" ELSE NULL]
    /\ UNCHANGED outsideCreate

\* kh_init, xmlNewParserCtxt, xmlCtxtReadFile, xmlXPathNewContext and
\* xmlXPathEvalExpression: the resource, or r = IL_EFAIL and a jump; n: the
\* number of nodes of the node set
DictAcquire ==
    /\ dc.pc \in DOMAIN DictSteps
    /\ \E ok \in BOOLEAN, n \in 0..MaxCats :
          /\ n > 0 => (ok /\ dc.pc \in {"obj_cats", "obj_regs"})
          /\ dc.pc = "obj_regs" => n <= MaxRegs
          /\ dc' = IF ok
                   THEN [Acquire(dc, <<dc.pc, 0>>) EXCEPT
                            !.pc = DictSteps[dc.pc].next, !.n = n]
                   ELSE [dc EXCEPT !.pc = DictSteps[dc.pc].fail,
                                   !.r = IL_EFAIL, !.failed = TRUE]
    /\ UNCHANGED outsideCreate

\* "verify root": the root element is ROOT_NAME, or goto cleanup_doc
DictRoot ==
    /\ dc.pc = "root"
    /\ \E ok \in BOOLEAN :
          dc' = IF ok THEN [dc EXCEPT !.pc = "xpath"]
                ELSE [dc EXCEPT !.pc = "cleanup_doc", !.r = IL_EFAIL,
                                !.failed = TRUE]
    /\ UNCHANGED outsideCreate

\* one iteration of "parse each category", or the end of the loop
DictParseCat ==
    /\ dc.pc = "cats"
    /\ IF Len(dc.cats) < dc.n /\ dc.n <= MaxCats
       THEN \E kind \in CatKinds(dc.cats), scat \in BOOLEAN,
               r_junk \in {IL_OK, IL_EFAIL} :
               /\ scat => kind \in {"ok", "labels_parse"}
               /\ r_junk = IL_OK => kind = "scats_alloc"
               /\ LET res == parse_cat(dc, Len(dc.cats) + 1, kind, scat, r_junk)
                  IN  dc' = [res.st EXCEPT
                               !.r = res.r,
                               !.failed = @ \/ kind # "ok",
                               !.pc = IF res.r # IL_OK
                                      THEN "cleanup_h_cats_entries" ELSE @]
       ELSE dc' = [dc EXCEPT !.pc = "obj_regs"]
    /\ UNCHANGED outsideCreate

\* one iteration of "parse each register", or the end of the loop and
\* xmlXPathFreeObject(obj_regs); xmlXPathFreeObject(obj_cats); goto
\* cleanup_xpath
DictParseReg ==
    /\ dc.pc = "regs"
    /\ IF Len(dc.regs) < dc.n /\ dc.n <= MaxRegs
       THEN \E kind \in RegKinds(dc.regs) :
               LET res == parse_reg_entry(dc, Len(dc.regs) + 1, kind)
               IN  dc' = [res.st EXCEPT
                            !.r = res.r,
                            !.failed = @ \/ res.r # IL_OK,
                            !.pc = IF res.r # IL_OK
                                   THEN "cleanup_h_regs_entries" ELSE @]
       ELSE dc' = [Release(Release(dc, <<"obj_regs", 0>>), <<"obj_cats", 0>>)
                      EXCEPT !.pc = "cleanup_xpath"]
    /\ UNCHANGED outsideCreate

\* the statements under one label of the cleanup chain
DictCleanupOf(st, label, junk) ==
    CASE label = "cleanup_h_regs_entries" ->
           Release(FreeRegs(st, 1, junk), <<"obj_regs", 0>>)
      [] label = "cleanup_h_cats_entries" ->
           Release(FreeCats(st, 1, junk), <<"obj_cats", 0>>)
      [] label = "cleanup_xpath" -> Release(st, <<"xpath", 0>>)
      [] label = "cleanup_doc" -> Release(st, <<"doc", 0>>)
      [] label = "cleanup_ctxt" -> Release(st, <<"ctxt", 0>>)
      [] label = "cleanup_h_regs" ->
           IF st.r # IL_OK THEN Release(st, <<"h_regs", 0>>) ELSE st
      [] OTHER ->
           IF st.r # IL_OK THEN Release(st, <<"h_cats", 0>>) ELSE st

\* one label of the cleanup chain, control falling through to the next
DictCleanup ==
    /\ dc.pc \in DictCleanupLabels
    /\ \E junk \in BOOLEAN :
          dc' = [DictCleanupOf(dc, dc.pc, junk) EXCEPT
                    !.pc = DictCleanupNext(dc.pc)]
    /\ UNCHANGED outsideCreate

\* cleanup_dict: if (r < 0) { free(dict); return NULL; } return dict;
DictReturn ==
    /\ dc.pc = "cleanup_dict"
    /\ dc' = IF dc.r # IL_OK
             THEN [Release(dc, <<"dict", 0>>) EXCEPT !.pc = "returned",
                                                     !.ret = NULL]
             ELSE [dc EXCEPT !.pc = "returned", !.ret = "dict"]
    /\ UNCHANGED outsideCreate

il_dict_create ==
    \/ DictCall
    \/ DictAcquire
    \/ DictRoot
    \/ DictParseCat
    \/ DictParseReg
    \/ DictCleanup
    \/ DictReturn

InitCreate ==
    /\ InitEmcyVars
    /\ InitRegVars
    /\ InitSwVars
    /\ InitCallVars
    /\ InitLifeVars
    /\ InitSmVars
    /\ InitIoVars
    /\ InitDictVars

NextCreate == il_dict_create

SpecCreate == InitCreate /\ [][NextCreate]_vars

(***************************************************************************)
(* C40: the failure paths of il_dict_create.                               *)
(***************************************************************************)
\* il_dict_create has returned from a call in which a step failed
CreateFailed == dc.pc = "returned" /\ dc.failed

\* C40: on every failure path il_dict_create returns no dictionary, every
\* resource it acquired has been released exactly once, and nothing was
\* released that was not acquired or was never initialised.
C40_FailureReleasesAll ==
    CreateFailed => (dc.ret = NULL /\ dc.held = {} /\ dc.bad = {})

\* the node set of the registers could not be evaluated: the categories,
\* the document's objects and the register table are still held
C40_LeakWitness ==
    /\ CreateFailed
    /\ dc.ret = NULL
    /\ dc.regs = <<>>
    /\ {<<"obj_cats", 0>>, <<"xpath", 0>>, <<"doc", 0>>, <<"ctxt", 0>>,
        <<"h_regs", 0>>, <<"cat_key", 1>>} \subseteq dc.held

\* a register entry without address: its scat_id, never written, was freed
C40_WildFreeWitness ==
    /\ CreateFailed
    /\ <<<<"reg_scat_id", 1>>, "uninit">> \in dc.bad

\* the labels of a register entry were destroyed twice
C40_DoubleFreeWitness ==
    /\ CreateFailed
    /\ <<<<"reg_labels", 1>>, "not held">> \in dc.bad

\* kh_init failed in parse_cat and a dictionary was returned
C40_ReturnedWitness ==
    /\ CreateFailed
    /\ dc.ret = "dict"

\* the failures before the first node is parsed, the node set of the
\* registers apart, leave nothing behind
C40_NoNodesClean ==
    (CreateFailed /\ dc.cats = <<>> /\ dc.regs = <<>>
       /\ <<"obj_cats", 0>> \notin dc.held)
      => (dc.ret = NULL /\ dc.held = {} /\ dc.bad = {})

============================================================================
